---- MODULE Spec2Model ----
(***************************************************************************)
(* Jadlo route planner: the edge cost model, the intersection-graph        *)
(* simplifier, the two search strategies (compute_route and                *)
(* compute_route_intersections), the corridor stitcher (run_segmented,     *)
(* stitch_coords) and the post-stitch gap repair.                          *)
(*                                                                         *)
(* Representation.                                                         *)
(*  - A coordinate is an integer: a position in metres along one meridian. *)
(*    On a meridian the great-circle distance of two points is the         *)
(*    absolute difference of their positions, and the bearing from a to b  *)
(*    is 0 (north) when b >= a and 180 (south) otherwise.                  *)
(*  - Preferences in [0,1] are held in halves (0, 1, 2 for 0.0, 0.5, 1.0). *)
(*  - A weight is an exact rational held as an integer in units of         *)
(*    1/WScale; a weight on the intersection graph is in units of          *)
(*    1/(WScale * HScale).                                                 *)
(*  - A surface label is the list of its ':'-separated parts; <<>> is a    *)
(*    missing (None) or empty label.                                       *)
(*    surface_list says that the tag is a list of labels, of which the    *)
(*    record holds the first.                                              *)
(*  - A highway tag is [isList, items]: a scalar tag has one item, a       *)
(*    missing tag none.                                                    *)
(***************************************************************************)
EXTENDS Integers, Sequences, FiniteSets, TLC

\* An absent dictionary key / None.
Missing == 0 - 1

Abs(x) == IF x >= 0 THEN x ELSE 0 - x

Min2(a, b) == IF a <= b THEN a ELSE b

Max2(a, b) == IF a >= b THEN a ELSE b

SetMin(S) == CHOOSE x \in S : \A y \in S : x <= y

Last(s) == s[Len(s)]

RECURSIVE Pow(_, _)
Pow(b, e) == IF e = 0 THEN 1 ELSE b * Pow(b, e - 1)

Range(s) == { s[i] : i \in 1..Len(s) }

\* The elements of a finite set of integers as an ascending sequence.
RECURSIVE Ascending(_)
Ascending(S) == IF S = {} THEN <<>> ELSE <<SetMin(S)>> \o Ascending(S \ {SetMin(S)})

----------------------------------------------------------------------------
(* Geometry utilities *)

\* _haversine / haversine_m: great-circle distance in metres.
_haversine(a, b) == Abs(b - a)

\* _bearing: degrees from a to b, (degrees(atan2(x, y)) + 360) % 360 with x = 0.
_bearing(a, b) == IF b >= a THEN 0 ELSE 180

----------------------------------------------------------------------------
(* Edge cost model *)

\* Largest surface-weight exponent the request schema admits.
MaxExp == 3

SpScale == Pow(10, MaxExp)

WScale == 100 * SpScale

\* HIGHWAY_PENALTIES in tenths; Missing when the class is not a key.
HIGHWAY_PENALTIES(h) ==
    CASE h = "motorway"    -> 50
      [] h = "trunk"       -> 30
      [] h = "primary"     -> 20
      [] h = "secondary"   -> 15
      [] h = "tertiary"    -> 12
      [] h = "residential" -> 10
      [] h = "service"     -> 10
      [] h = "cycleway"    -> 7
      [] h = "path"        -> 9
      [] OTHER             -> Missing

\* SURFACE_PENALTIES in tenths; Missing when the label is not a key.
SURFACE_PENALTIES(s) ==
    CASE s = <<"paved">>    -> 10
      [] s = <<"asphalt">>  -> 10
      [] s = <<"concrete">> -> 10
      [] s = <<"gravel">>   -> 16
      [] s = <<"unpaved">>  -> 20
      [] s = <<"dirt">>     -> 20
      [] OTHER              -> Missing

\* A surface penalty that is neutral for every label.
NeutralSurfacePenalty(surface) == 10

\* _get_surface_penalty in tenths: exact match, then the prefix before ':'.
_get_surface_penalty(surface) ==
    IF SURFACE_PENALTIES(surface) # Missing THEN SURFACE_PENALTIES(surface)
    ELSE IF Len(surface) > 1 /\ SURFACE_PENALTIES(<<surface[1]>>) # Missing
         THEN SURFACE_PENALTIES(<<surface[1]>>)
    ELSE 10

\* params.get(key, default) on a preference held as Missing when absent.
ParamGet(value, default) == IF value = Missing THEN default ELSE value

\* highway[0] of a list-valued tag raises on the empty list, and
\* SURFACE_PENALTIES.get(surface) raises on a list-valued surface tag (a list
\* is not hashable); surface_list says that the tag is a non-empty list, of
\* which surface is the first label.
_edge_penalty_raises(data) ==
    \/ data.highway.isList /\ data.highway.items = <<>>
    \/ data.surface_list /\ data.surface # <<>>

\* The highway class _edge_penalty works with: the first element of a list.
HighwayOf(data) ==
    IF data.highway.items = <<>> THEN "None" ELSE data.highway.items[1]

\* A main-road adjustment that knows primary roads only.
PrimaryOnly == {"primary"}

MAIN_CLASSES == {"primary", "secondary", "trunk", "motorway"}

\* An unpaved adjustment that leaves dirt out.
RoughWithoutDirt == { <<"gravel">>, <<"unpaved">> }

ROUGH_SURFACES == { <<"gravel">>, <<"unpaved">>, <<"dirt">> }

\* _edge_penalty: length * hp * sp * heatmap_bonus, in units of 1/WScale.
_edge_penalty(data, params) ==
    LET length  == IF data.length = Missing THEN 1 ELSE data.length
        highway == HighwayOf(data)
        hp10    == IF HIGHWAY_PENALTIES(highway) = Missing THEN 10
                   ELSE HIGHWAY_PENALTIES(highway)
        surface == data.surface
        factor  == ParamGet(params.surface_weight_factor, 1)
        \* sp = base_sp ** surface_weight_factor, in units of 1/SpScale
        sp0     == IF surface = <<>> THEN SpScale
                   ELSE Pow(_get_surface_penalty(surface), factor)
                        * Pow(10, MaxExp - factor)
        \* avoid_factor + (prefer_factor - avoid_factor) * prefer_main, tenths
        pm      == ParamGet(params.prefer_main_roads, 1)
        hp100   == IF highway \in MAIN_CLASSES THEN hp10 * (15 - 4 * pm)
                   ELSE hp10 * 10
        \* 1.0 - 0.5 * (prefer_unpaved - 0.5), in quarters
        pu      == ParamGet(params.prefer_unpaved, 1)
        sp      == IF surface \in ROUGH_SURFACES THEN (sp0 * (5 - pu)) \div 4
                   ELSE sp0
        \* 1.0 - 0.4 * heatmap_influence, in fifths
        hi      == ParamGet(params.heatmap_influence, 0)
        bonus5  == IF hi > 0 /\ highway = "cycleway" THEN 5 - hi ELSE 5
    IN  length * ((hp100 * bonus5) \div 5) * sp

\* The weight an edge gets in the scoring loops: _edge_penalty, and
\* data.get('length', 1.0) when it raises.
EdgeWeight(data, params) ==
    IF _edge_penalty_raises(data)
    THEN (IF data.length = Missing THEN 1 ELSE data.length) * WScale
    ELSE _edge_penalty(data, params)

----------------------------------------------------------------------------
(* The road graph and the external graph provider *)

\* A road graph is [y |-> node -> coordinate, edges |-> set of edge records].
\* An edge record is [u, v, key, length, highway, surface, surface_list,
\* geometry, weight];
\* geometry is the edge's polyline (coordinates) or <<>> for none.
NodesOf(G) == DOMAIN G.y

EmptyGraph == [y |-> << >>, edges |-> {}]

\* R of _haversine, metres.
EARTH_R == 6371000

\* Metres of arc per degree of latitude, R * pi / 180.
MetersPerDegree == ((EARTH_R \div 1000) * 31416) \div 1800

\* A bbox buffer given in hundredths of a degree, in metres.
BufMeters(centi) == (centi * MetersPerDegree) \div 100

\* The part of the provider's map inside [lo, hi]: the edges with both ends
\* inside and the nodes they touch.
Truncate(world, lo, hi) ==
    LET inside == { n \in DOMAIN world.y : world.y[n] >= lo /\ world.y[n] <= hi }
        es     == { e \in world.edges : e.u \in inside /\ e.v \in inside }
        ns     == { e.u : e \in es } \cup { e.v : e \in es }
    IN  [y |-> [n \in ns |-> world.y[n]], edges |-> es]

\* ox.graph_from_point((lat1, lon1), dist=radius_meters)
graph_from_point(world, center, dist) == Truncate(world, center - dist, center + dist)

\* ox.graph_from_bbox(n, s, e, w) with n = max(lat) + buf, s = min(lat) - buf
graph_from_bbox(world, lat1, lat2, buf) ==
    Truncate(world, Min2(lat1, lat2) - buf, Max2(lat1, lat2) + buf)

\* The fetch of both strategies: by radius when one is given, else by bbox.
\* radius is Missing for None; buf is in hundredths of a degree.
FetchArea(world, lat1, lat2, radius, buf) ==
    IF radius # Missing THEN graph_from_point(world, lat1, radius)
    ELSE graph_from_bbox(world, lat1, lat2, BufMeters(buf))

\* _ensure_edge_lengths: an edge without a length gets the great-circle
\* distance of its end nodes.
_ensure_edge_lengths(G) ==
    [G EXCEPT !.edges =
        { IF e.length = Missing \/ e.length = 0
          THEN [e EXCEPT !.length = _haversine(G.y[e.u], G.y[e.v])]
          ELSE e : e \in G.edges }]

\* The scoring loop of both strategies: data['weight'] for every edge.
ScoreEdges(G, params) ==
    [G EXCEPT !.edges = { [e EXCEPT !.weight = EdgeWeight(e, params)] : e \in G.edges }]

\* ox.distance.nearest_nodes: the node closest to the coordinate (the lowest
\* id among equally close ones).
nearest_nodes(G, c) ==
    LET d(n) == _haversine(G.y[n], c)
        best == SetMin({ d(n) : n \in NodesOf(G) })
    IN  SetMin({ n \in NodesOf(G) : d(n) = best })

----------------------------------------------------------------------------
(* Plain weighted shortest path (networkx Dijkstra on the multigraph) *)

EdgeAttr(e, attr) == IF attr = "weight" THEN e.weight ELSE e.length

Succ(G, u) == { e.v : e \in { x \in G.edges : x.u = u } }

\* The cost of going u -> v: the cheapest of the parallel edges.
ParCost(G, u, v, attr) ==
    SetMin({ EdgeAttr(e, attr) : e \in { x \in G.edges : x.u = u /\ x.v = v } })

RECURSIVE DijkstraLoop(_, _, _, _, _, _)
DijkstraLoop(G, attr, target, dist, pred, done) ==
    LET open == { n \in NodesOf(G) : dist[n] # Missing /\ n \notin done }
    IN  IF open = {} THEN [dist |-> dist, pred |-> pred]
        ELSE
        LET dmin == SetMin({ dist[n] : n \in open })
            u    == SetMin({ n \in open : dist[n] = dmin })
            nd(v) == dist[u] + ParCost(G, u, v, attr)
            better(v) == /\ v \in Succ(G, u)
                         /\ v \notin done
                         /\ (dist[v] = Missing \/ nd(v) < dist[v])
        IN  IF u = target THEN [dist |-> dist, pred |-> pred]
            ELSE DijkstraLoop(G, attr, target,
                    [n \in NodesOf(G) |-> IF better(n) THEN nd(n) ELSE dist[n]],
                    [n \in NodesOf(G) |-> IF better(n) THEN u ELSE pred[n]],
                    done \cup {u})

RECURSIVE PathTo(_, _, _)
PathTo(pred, source, n) ==
    IF n = source THEN <<n>> ELSE PathTo(pred, source, pred[n]) \o <<n>>

\* nx.shortest_path(G, source, target, weight=attr): the node sequence, or
\* <<>> when it raises (no path, or an end that is no node of G).
shortest_path(G, source, target, attr) ==
    IF source \notin NodesOf(G) \/ target \notin NodesOf(G) THEN <<>>
    ELSE
    LET r == DijkstraLoop(G, attr, target,
                [n \in NodesOf(G) |-> IF n = source THEN 0 ELSE Missing],
                [n \in NodesOf(G) |-> Missing], {})
    IN  IF r.dist[target] = Missing THEN <<>> ELSE PathTo(r.pred, source, target)

----------------------------------------------------------------------------
(* Graph simplifier: simplify_graph_to_intersections *)

\* Hop limit of one walk.
MAX_HOPS == 5000

\* An edge of G.to_undirected(reciprocal=False): u -> v and v -> u under the
\* same key are one undirected edge.
UKey(e) == <<Min2(e.u, e.v), Max2(e.u, e.v), e.key>>

\* Gu.degree(n): incident undirected edges, a self-loop counted twice.
Degree(G, n) ==
    Cardinality({ UKey(e) : e \in { x \in G.edges : (x.u = n \/ x.v = n) /\ x.u # x.v } })
    + 2 * Cardinality({ e.key : e \in { x \in G.edges : x.u = n /\ x.v = n } })

\* Gu[n]: the neighbours of n in the undirected view.
Nbrs(G, n) ==
    { e.v : e \in { x \in G.edges : x.u = n } } \cup { e.u : e \in { x \in G.edges : x.v = n } }

\* A classifier that takes junctions only, not dead ends.
IsJunctionNode(G, n) == Degree(G, n) > 2

\* _is_intersection_node: undirected degree != 2.
_is_intersection_node(G, n) == Degree(G, n) # 2

Intersections(G) == { n \in NodesOf(G) : _is_intersection_node(G, n) }

EdgesBetween(G, u, v) == { e \in G.edges : e.u = u /\ e.v = v }

\* next(iter(ed.values())): the data under the first key.
FirstKeyEdge(S) == CHOOSE e \in S : \A f \in S : e.key <= f.key

\* G.get_edge_data(u, v) or G.get_edge_data(v, u) is not None
HasEdgeData(G, u, v) == EdgesBetween(G, u, v) # {} \/ EdgesBetween(G, v, u) # {}

EdgeData(G, u, v) ==
    IF EdgesBetween(G, u, v) # {} THEN FirstKeyEdge(EdgesBetween(G, u, v))
    ELSE FirstKeyEdge(EdgesBetween(G, v, u))

\* Appending one traversed edge to a coordinate list: the edge's polyline
\* when it has one (its first point dropped when it repeats the last point
\* of the list), else the coordinates of its two end nodes.
AppendNodeCoords(acc, G, u, v) ==
    LET a1 == IF acc = <<>> \/ Last(acc) # G.y[u] THEN Append(acc, G.y[u]) ELSE acc
    IN  Append(a1, G.y[v])

AppendEdgeCoords(acc, G, u, v) ==
    IF ~HasEdgeData(G, u, v) THEN AppendNodeCoords(acc, G, u, v)
    ELSE LET geom == EdgeData(G, u, v).geometry
         IN  IF geom # <<>>
             THEN (IF acc # <<>> /\ Last(acc) = geom[1] THEN acc \o Tail(geom)
                   ELSE acc \o geom)
             ELSE AppendNodeCoords(acc, G, u, v)

\* The walk from intersection n through neighbour nbr: [path, cur] when the
\* while loop ends.
RECURSIVE WalkLoop(_, _, _, _, _, _)
WalkLoop(G, ints, path, prev, cur, hops) ==
    IF cur \in ints \/ hops >= MAX_HOPS THEN [path |-> path, cur |-> cur]
    ELSE LET path2 == Append(path, cur)
             nexts == Ascending(Nbrs(G, cur) \ {prev})
         IN  IF nexts = <<>> THEN [path |-> path2, cur |-> cur]
             ELSE IF nexts[1] \in Range(path2) THEN [path |-> path2, cur |-> nexts[1]]
             ELSE WalkLoop(G, ints, path2, cur, nexts[1], hops + 1)

\* geom_edges of a node sequence (simplifier: an edge without data is skipped).
RECURSIVE WalkGeom(_, _, _, _)
WalkGeom(G, seq, i, acc) ==
    IF i >= Len(seq) THEN acc
    ELSE WalkGeom(G, seq, i + 1,
            IF HasEdgeData(G, seq[i], seq[i + 1])
            THEN AppendEdgeCoords(acc, G, seq[i], seq[i + 1]) ELSE acc)

\* A total that takes the length of the first traversed edge only.
WalkLengthOfFirstEdge(G, seq, i) ==
    IF Len(seq) >= 2 /\ HasEdgeData(G, seq[1], seq[2])
          /\ EdgeData(G, seq[1], seq[2]).length # Missing
    THEN EdgeData(G, seq[1], seq[2]).length ELSE 0

RECURSIVE WalkLength(_, _, _)
WalkLength(G, seq, i) ==
    IF i >= Len(seq) THEN 0
    ELSE (IF HasEdgeData(G, seq[i], seq[i + 1])
          THEN (LET l == EdgeData(G, seq[i], seq[i + 1]).length
                IN  IF l = Missing THEN 0 ELSE l)
          ELSE 0) + WalkLength(G, seq, i + 1)

\* geom of the fallback: the nodes' coordinates without repeats.
RECURSIVE NodeGeom(_, _, _, _)
NodeGeom(G, seq, i, acc) ==
    IF i > Len(seq) THEN acc
    ELSE NodeGeom(G, seq, i + 1,
            IF acc = <<>> \/ Last(acc) # G.y[seq[i]] THEN Append(acc, G.y[seq[i]]) ELSE acc)

\* The aggregated edge of a walk that reached intersection cur.
AggregatedEdge(G, n, path, cur) ==
    LET seq   == Append(path, cur)
        ge    == WalkGeom(G, seq, 1, <<>>)
        geom  == IF ge # <<>> THEN ge ELSE NodeGeom(G, seq, 1, <<>>)
        tl    == WalkLength(G, seq, 1)
        total == IF tl = 0 /\ Len(geom) >= 2 THEN _haversine(geom[1], Last(geom)) ELSE tl
        has0  == Len(seq) >= 2 /\ HasEdgeData(G, seq[1], seq[2])
    IN  [u |-> n, v |-> cur, length |-> total, geometry |-> geom,
         bearing  |-> IF Len(geom) >= 2 THEN _bearing(geom[1], Last(geom)) ELSE Missing,
         highway  |-> IF has0 THEN EdgeData(G, seq[1], seq[2]).highway
                      ELSE [isList |-> FALSE, items |-> <<>>],
         surface  |-> IF has0 THEN EdgeData(G, seq[1], seq[2]).surface ELSE <<>>,
         surface_list |-> has0 /\ EdgeData(G, seq[1], seq[2]).surface_list,
         weight   |-> Missing]

\* An insertion that always overwrites the edge stored for the pair.
HAddEdgeLast(hedges, rec) ==
    LET at == { i \in 1..Len(hedges) : hedges[i].u = rec.u /\ hedges[i].v = rec.v }
    IN  IF at = {} THEN Append(hedges, rec)
        ELSE [hedges EXCEPT ![CHOOSE j \in at : TRUE] = rec]

\* H.add_edge(n, cur, ...) unless an edge n -> cur that is not longer is there.
\* The edges of H are kept in insertion order (the order A* expands them in).
HAddEdge(hedges, rec) ==
    LET at == { i \in 1..Len(hedges) : hedges[i].u = rec.u /\ hedges[i].v = rec.v }
    IN  IF at = {} THEN Append(hedges, rec)
        ELSE LET i == CHOOSE j \in at : TRUE
             IN  IF hedges[i].length <= rec.length THEN hedges
                 ELSE [hedges EXCEPT ![i] = rec]

\* Walks that leave a node only along the edges that start at it.
RECURSIVE WalkStartsOutgoing(_, _)
WalkStartsOutgoing(G, ns) ==
    IF ns = <<>> THEN <<>>
    ELSE LET nb == Ascending({ m \in Nbrs(G, Head(ns)) : EdgesBetween(G, Head(ns), m) # {} })
         IN  [i \in 1..Len(nb) |-> <<Head(ns), nb[i]>>] \o WalkStartsOutgoing(G, Tail(ns))

\* The walks in the order of the two for loops: <<n, nbr>>.
RECURSIVE WalkStarts(_, _)
WalkStarts(G, ns) ==
    IF ns = <<>> THEN <<>>
    ELSE LET nb == Ascending(Nbrs(G, Head(ns)))
         IN  [i \in 1..Len(nb) |-> <<Head(ns), nb[i]>>] \o WalkStarts(G, Tail(ns))

\* A simplifier that emits an edge wherever a walk stops.
RECURSIVE SimplifyLoopAnyEnd(_, _, _, _)
SimplifyLoopAnyEnd(G, ints, starts, hedges) ==
    IF starts = <<>> THEN hedges
    ELSE LET n  == Head(starts)[1]
             w  == WalkLoop(G, ints, <<n>>, n, Head(starts)[2], 0)
         IN  SimplifyLoopAnyEnd(G, ints, Tail(starts),
                IF w.cur = n THEN hedges
                ELSE HAddEdge(hedges, AggregatedEdge(G, n, w.path, w.cur)))

RECURSIVE SimplifyLoop(_, _, _, _)
SimplifyLoop(G, ints, starts, hedges) ==
    IF starts = <<>> THEN hedges
    ELSE LET n  == Head(starts)[1]
             w  == WalkLoop(G, ints, <<n>>, n, Head(starts)[2], 0)
         IN  SimplifyLoop(G, ints, Tail(starts),
                IF w.cur = n \/ w.cur \notin ints THEN hedges
                ELSE HAddEdge(hedges, AggregatedEdge(G, n, w.path, w.cur)))

\* simplify_graph_to_intersections: H = [nodes, y, edges].  H.add_node puts
\* the intersections into H, and H.add_edge the two end nodes of each edge.
simplify_graph_to_intersections(G) ==
    LET ints   == Intersections(G)
        hedges == SimplifyLoop(G, ints, WalkStarts(G, Ascending(ints)), <<>>)
    IN  [nodes |-> ints \cup { hedges[i].u : i \in 1..Len(hedges) }
                        \cup { hedges[i].v : i \in 1..Len(hedges) },
         y     |-> [n \in ints |-> G.y[n]],
         edges |-> hedges]

----------------------------------------------------------------------------
(* Heuristic strategy: the parts of compute_route_intersections *)

\* A walk that follows the newest node first.
RECURSIVE DepthFirstLoop(_, _, _, _)
DepthFirstLoop(G, H, q, seen) ==
    IF q = <<>> THEN Missing
    ELSE IF Head(q) \in H.nodes THEN Head(q)
    ELSE LET new == Ascending(Nbrs(G, Head(q)) \ seen)
         IN  DepthFirstLoop(G, H, new \o Tail(q), seen \cup Range(new))

\* Breadth-first walk of the undirected graph to the first intersection;
\* Missing when the queue runs empty.
RECURSIVE BfsLoop(_, _, _, _)
BfsLoop(G, H, q, seen) ==
    IF q = <<>> THEN Missing
    ELSE IF Head(q) \in H.nodes THEN Head(q)
    ELSE LET new == Ascending(Nbrs(G, Head(q)) \ seen)
         IN  BfsLoop(G, H, Tail(q) \o new, seen \cup Range(new))

nearest_intersection(G, H, node) ==
    IF node \in H.nodes THEN node
    ELSE LET r == BfsLoop(G, H, <<node>>, {node})
         IN  IF r = Missing THEN node ELSE r

\* Default heading_threshold_deg.
HEADING_THRESHOLD == 60

\* Weights on H are in units of 1/(WScale * HScale).
HScale == 2 * 3

\* A difference of bearings taken without folding it into a half turn.
RawDifference(edge_bearing, desired_bearing) == edge_bearing - desired_bearing

\* The deviation of an edge bearing from the bearing towards the goal.
HeadingDiff(edge_bearing, desired_bearing) ==
    Abs(((edge_bearing - desired_bearing + 180) % 360) - 180)

\* 1.5 + (diff - threshold) / 180 in units of 1/HScale when diff > threshold.
HeadingFactor(diff, threshold) ==
    IF diff > threshold THEN (270 + diff - threshold) \div 30 ELSE HScale

\* The weight loop over H: _edge_penalty of the aggregated length and tags,
\* times the heading factor.
HEdgeWeight(H, e, goal_coord, params, threshold) ==
    LET base == _edge_penalty([length |-> e.length, highway |-> e.highway,
                               surface |-> e.surface,
                               surface_list |-> e.surface_list], params)
        diff == HeadingDiff(e.bearing, _bearing(H.y[e.u], goal_coord))
    IN  base * HeadingFactor(diff, threshold)

WeighH(H, goal_coord, params, threshold) ==
    [H EXCEPT !.edges = [i \in 1..Len(H.edges) |->
        [H.edges[i] EXCEPT !.weight = HEdgeWeight(H, H.edges[i], goal_coord, params, threshold)]]]

\* heuristic(u): great-circle distance to the requested end, in weight units.
Heuristic(H, u, goal_coord) == _haversine(H.y[u], goal_coord) * WScale * HScale

\* G_succ[curnode].items() in insertion order.
OutEdges(H, u) == SelectSeq(H.edges, LAMBDA e : e.u = u)

\* nx.astar_path. st = [queue, enq, exp, c]: the heap entries [f, c, node,
\* dist, parent], enqueued costs, explored parents (0 for None, Missing for
\* not explored) and the push counter.
RECURSIVE AStarNeighbors(_, _, _, _, _, _)
AStarNeighbors(H, goal_coord, outs, cur, dist, st) ==
    IF outs = <<>> THEN st
    ELSE LET e     == Head(outs)
             ncost == dist + e.weight
             skip  == st.enq[e.v] # Missing /\ st.enq[e.v] <= ncost
         IN  AStarNeighbors(H, goal_coord, Tail(outs), cur, dist,
                IF skip THEN st
                ELSE [queue |-> st.queue \cup
                                { [f |-> ncost + Heuristic(H, e.v, goal_coord), c |-> st.c,
                                   node |-> e.v, dist |-> ncost, parent |-> cur] },
                      enq   |-> [st.enq EXCEPT ![e.v] = ncost],
                      exp   |-> st.exp,
                      c     |-> st.c + 1])

RECURSIVE PathBack(_, _)
PathBack(exp, node) == IF node = 0 THEN <<>> ELSE PathBack(exp, exp[node]) \o <<node>>

RECURSIVE AStarLoop(_, _, _, _)
AStarLoop(H, goal_coord, target, st) ==
    IF st.queue = {} THEN <<>>
    ELSE
    LET fmin == SetMin({ q.f : q \in st.queue })
        cmin == SetMin({ q.c : q \in { x \in st.queue : x.f = fmin } })
        top  == CHOOSE q \in st.queue : q.f = fmin /\ q.c = cmin
        st1  == [st EXCEPT !.queue = @ \ {top}]
    IN  IF top.node = target THEN PathBack(st.exp, top.parent) \o <<target>>
        ELSE IF st.exp[top.node] # Missing
                /\ (st.exp[top.node] = 0 \/ st.enq[top.node] < top.dist)
        THEN AStarLoop(H, goal_coord, target, st1)
        ELSE AStarLoop(H, goal_coord, target,
                AStarNeighbors(H, goal_coord, OutEdges(H, top.node), top.node, top.dist,
                               [st1 EXCEPT !.exp[top.node] = top.parent]))

\* nx.astar_path(H, s, t): the node sequence, or <<>> when it raises
\* (NetworkXNoPath, or NodeNotFound for an end that is no node of H).
astar_path(H, s, t, goal_coord) ==
    IF s \notin H.nodes \/ t \notin H.nodes THEN <<>>
    ELSE AStarLoop(H, goal_coord, t,
            [queue |-> { [f |-> 0, c |-> 0, node |-> s, dist |-> 0, parent |-> 0] },
             enq   |-> [n \in H.nodes |-> Missing],
             exp   |-> [n \in H.nodes |-> Missing],
             c     |-> 1])

\* The coordinates of a node sequence of G by the edges' geometry.
RECURSIVE SegCoords(_, _, _, _)
SegCoords(G, seg, j, acc) ==
    IF j >= Len(seg) THEN acc
    ELSE SegCoords(G, seg, j + 1, AppendEdgeCoords(acc, G, seg[j], seg[j + 1]))

\* One pair a, b of the A* path: weight, then length, then give up.
ReconstructPair(G, a, b) ==
    IF shortest_path(G, a, b, "weight") # <<>> THEN shortest_path(G, a, b, "weight")
    ELSE shortest_path(G, a, b, "length")

\* The reconstruction loop over the pairs of the A* path.
RECURSIVE ReconstructCoords(_, _, _, _)
ReconstructCoords(G, path, i, acc) ==
    IF i >= Len(path) THEN acc
    ELSE LET seg == ReconstructPair(G, path[i], path[i + 1])
         IN  ReconstructCoords(G, path, i + 1,
                IF seg = <<>> THEN acc ELSE SegCoords(G, seg, 1, acc))

\* "ensure start and end points present"
EnsureEndpoints(coords, start, end) ==
    LET c1 == IF coords # <<>> /\ coords[1] # start THEN <<start>> \o coords ELSE coords
    IN  IF c1 # <<>> /\ Last(c1) # end THEN Append(c1, end) ELSE c1

\* Plain strategy: coords = [(G.nodes[n]['y'], ...) for n in route_nodes]
NodeCoords(G, route) == [i \in 1..Len(route) |-> G.y[route[i]]]

----------------------------------------------------------------------------
(* The provider's maps and the requests of the model *)

Hw(h) == [isList |-> FALSE, items |-> <<h>>]

Edge(u, v, key, length, highway, surface, geometry) ==
    [u |-> u, v |-> v, key |-> key, length |-> length, highway |-> Hw(highway),
     surface |-> surface, surface_list |-> FALSE, geometry |-> geometry,
     weight |-> Missing]

\* The streets a town map is drawn from: four nodes at 2, 4, 6 and 8 m,
\* two-way and one-way streets, a parallel edge, a street with a polyline
\* and a street whose length the provider left out.
TownY == [n \in 1..4 |-> 2 * n]

TownStreets ==
    { Edge(1, 2, 0, 2, "residential", <<"asphalt">>, <<>>),
      Edge(2, 1, 0, 2, "residential", <<"asphalt">>, <<>>),
      Edge(1, 2, 1, 1, "path", <<"gravel">>, <<>>),
      Edge(2, 3, 0, 2, "primary", <<>>, <<>>),
      Edge(3, 2, 0, 2, "primary", <<>>, <<>>),
      Edge(3, 1, 0, 5, "cycleway", <<"asphalt", "lanes">>, <<6, 3, 2>>),
      Edge(3, 4, 0, Missing, "residential", <<>>, <<>>),
      Edge(4, 3, 0, Missing, "residential", <<>>, <<>>) }

Towns == { [y |-> TownY, edges |-> es] : es \in (SUBSET TownStreets) \ {{}} }

\* Requested coordinates: on a node, between nodes and beyond the last node.
MaxCoord == 9

RequestCoords == 1..MaxCoord

Prefs(pm, pu, hi, swf) ==
    [prefer_main_roads |-> pm, prefer_unpaved |-> pu, heatmap_influence |-> hi,
     surface_weight_factor |-> swf]

RouteParams == { Prefs(1, 1, 0, 1), Prefs(0, 0, 2, 2) }

\* radius_meters: None (bbox fetch) or a radius around the start.
Radii == { Missing, 3 }

----------------------------------------------------------------------------
(* One route computation as a state machine *)

VARIABLES
    world,      \* the provider's map
    start,      \* requested start coordinate
    end,        \* requested end coordinate
    params,     \* RoutePreferences
    radius,     \* radius_meters
    strategy,   \* the function called: "plain" or "heuristic"
    pc,         \* stage of the computation
    mode,       \* the function running now: "heuristic" or "plain"
    G,          \* the fetched road graph
    H,          \* the intersection graph
    path,       \* node sequence found by the search
    coords,     \* returned coordinate list
    gpx,        \* track points of the returned track
    error,      \* what was raised to the caller
    fallbacks,  \* calls of compute_route made from compute_route_intersections
    stages      \* the stages entered, in order

\* run_segmented
VARIABLES
    segment_km,  \* chord length
    radius_m,    \* initial search radius
    points,      \* interpolated waypoints
    seg,         \* the segment of the for loop (1-based)
    attempt,     \* failed attempts of the segment so far
    cur_radius,  \* radius of the next attempt
    success,     \* the segment has a path
    all_coords,  \* coordinate lists of the segments solved so far
    stitched,    \* the stitched path
    out,         \* the output track file
    cpc,         \* position in run_segmented
    cerror,      \* what run_segmented raised
    tried        \* the calls of compute_route made, in order

\* gap repair and gap report after stitching
VARIABLES
    rflow,         \* "generate_100km" (repair and write) or "no_large_gaps" (report)
    rpc,           \* position in the test
    idx,           \* index i of the scan over the stitched path (1-based b)
    bbox_buf,      \* bbox buffer of the next bridging attempt, hundredths of a degree
    attempts,      \* failed bridging attempts for the pair
    final_coords,  \* the repaired path
    reported,      \* the gaps the test reported
    artifact       \* the written artifact

\* the split of a corridor into chords
VARIABLES
    wp_start,    \* corridor start (a latitude, floating point)
    wp_end,      \* corridor end
    wp_seg_km,   \* segment_km
    wp_n,        \* n_segments
    wp_points,   \* the waypoints
    wp_queries,  \* the sub-queries issued, as pairs <<s, e>>
    wp_pc        \* position in run_segmented

\* one call of the edge cost model
VARIABLES
    ec_data,    \* the edge record
    ec_params,  \* the preferences
    ec_weight,  \* the returned weight
    ec_pc       \* "call", "returned" or "raised"

\* one call of compute_route_hybrid
VARIABLES
    hy_backend,   \* the backend argument
    hy_setting,   \* ROUTING_BACKEND
    hy_request,   \* <<start, end>>
    hy_fallback,  \* the fallback argument of _try_graphhopper
    hy_in_try,    \* _try_osmnx is running inside the try block of _try_graphhopper
    hy_calls,     \* the backend calls made, in order, with their outcome
    hy_result,    \* the returned (coords, backend_used), coords tagged with their producer
    hy_error,     \* what was raised to the caller
    hy_pc         \* position in compute_route_hybrid

\* stitch_coords of the 100 km generator, joining one segment to the path
VARIABLES
    bg_all_coords,  \* all_coords: the path so far and the segment to join
    bg_stitched,    \* stitched
    bg_i,           \* i: first point of the segment that differs (1-based)
    bg_attempts,    \* attempts, and attempt2 of the sub-chord being solved
    bg_radius,      \* cur_radius, and cur_radius2
    bg_sub_points,  \* sub_points
    bg_si,          \* si (0-based)
    bg_outcome,     \* how the segment was joined
    bg_pc           \* position in stitch_coords

\* one call of simplify_graph_to_intersections and what follows it in
\* compute_route_intersections
VARIABLES
    sg_G,         \* the road graph
    sg_H,         \* the intersection graph
    sg_request,   \* <<start, end>> of the request
    sg_ends,      \* <<s_node, t_node>>
    sg_params,    \* the routing parameters
    sg_threshold, \* heading_threshold_deg
    sg_pc         \* position

routeVars == <<world, start, end, params, radius, strategy, pc, mode, G, H, path,
               coords, gpx, error, fallbacks, stages>>

corridorVars == <<segment_km, radius_m, points, seg, attempt, cur_radius, success,
                  all_coords, stitched, out, cpc, cerror, tried>>

repairVars == <<rflow, rpc, idx, bbox_buf, attempts, final_coords, reported, artifact>>

chordVars == <<wp_start, wp_end, wp_seg_km, wp_n, wp_points, wp_queries, wp_pc>>

costVars == <<ec_data, ec_params, ec_weight, ec_pc>>

\* The variables of the other functions of the repository.
hybridVars == <<hy_backend, hy_setting, hy_request, hy_fallback, hy_in_try,
                hy_calls, hy_result, hy_error, hy_pc>>

bridgeVars == <<bg_all_coords, bg_stitched, bg_i, bg_attempts, bg_radius,
                bg_sub_points, bg_si, bg_outcome, bg_pc>>

simplifyVars == <<sg_G, sg_H, sg_request, sg_ends, sg_params, sg_threshold, sg_pc>>

laterVars == <<chordVars, costVars, hybridVars, bridgeVars, simplifyVars>>

vars == <<routeVars, corridorVars, repairVars, laterVars>>

\* What one route computation leaves alone.
outsideRoute == <<corridorVars, repairVars, laterVars>>

NoFile == [written |-> FALSE, track |-> << >>]

\* No route computation, corridor or repair is running.
RouteIdle ==
    /\ radius = Missing /\ strategy = "plain" /\ pc = "idle" /\ mode = "plain"
    /\ G = EmptyGraph /\ H = [nodes |-> {}, y |-> << >>, edges |-> << >>]
    /\ path = <<>> /\ coords = <<>> /\ gpx = <<>> /\ error = "none"
    /\ fallbacks = 0 /\ stages = <<>>

CorridorIdle ==
    /\ segment_km = 0 /\ radius_m = 0 /\ points = <<>> /\ seg = 0 /\ attempt = 0
    /\ cur_radius = 0 /\ success = FALSE /\ all_coords = <<>> /\ out = NoFile
    /\ cpc = "idle" /\ cerror = "none" /\ tried = <<>>

RepairIdle ==
    /\ rflow = "none" /\ rpc = "idle" /\ idx = 0 /\ bbox_buf = 0 /\ attempts = 0
    /\ final_coords = <<>> /\ reported = <<>> /\ artifact = NoFile

ChordIdle ==
    /\ wp_start = 0 /\ wp_end = 0 /\ wp_seg_km = 0 /\ wp_n = 0
    /\ wp_points = <<>> /\ wp_queries = <<>> /\ wp_pc = "idle"

\* An edge record without attributes.
NoEdgeData ==
    [length |-> Missing, highway |-> [isList |-> FALSE, items |-> <<>>],
     surface |-> <<>>, surface_list |-> FALSE]

CostIdle ==
    /\ ec_data = NoEdgeData /\ ec_weight = Missing /\ ec_pc = "idle"
    /\ ec_params = [prefer_main_roads |-> 1, prefer_unpaved |-> 1,
                    heatmap_influence |-> 0, surface_weight_factor |-> 1]

NoResult == [coords |-> <<>>, produced_by |-> "none", backend_used |-> "none"]

HybridIdle ==
    /\ hy_backend = "None" /\ hy_setting = "auto" /\ hy_request = <<0, 0>>
    /\ hy_fallback = FALSE /\ hy_in_try = FALSE /\ hy_calls = <<>>
    /\ hy_result = NoResult /\ hy_error = "none" /\ hy_pc = "idle"

BridgeIdle ==
    /\ bg_all_coords = <<>> /\ bg_stitched = <<>> /\ bg_i = 0 /\ bg_attempts = 0
    /\ bg_radius = 0 /\ bg_sub_points = <<>> /\ bg_si = 0 /\ bg_outcome = "none"
    /\ bg_pc = "idle"

EmptyH == [nodes |-> {}, y |-> << >>, edges |-> << >>]

SimplifyIdle ==
    /\ sg_G = EmptyGraph /\ sg_H = EmptyH /\ sg_pc = "idle"
    /\ sg_request = <<0, 0>> /\ sg_ends = <<0, 0>>
    /\ sg_params = [prefer_main_roads |-> 1, prefer_unpaved |-> 1,
                    heatmap_influence |-> 0, surface_weight_factor |-> 1]
    /\ sg_threshold = 0

LaterIdle == ChordIdle /\ CostIdle /\ HybridIdle /\ BridgeIdle /\ SimplifyIdle

\* bbox buffers in hundredths of a degree: buf of compute_route_intersections
\* and the default bbox_buffer of compute_route.
BBoxBuffer(m) == IF m = "heuristic" THEN 12 ELSE 15

Init ==
    /\ world \in Towns
    /\ start \in RequestCoords
    /\ end \in RequestCoords
    /\ params \in RouteParams
    /\ radius \in Radii
    /\ strategy \in {"plain", "heuristic"}
    /\ pc = "fetch_graph"
    /\ mode = strategy
    /\ G = EmptyGraph
    /\ H = EmptyH
    /\ path = <<>>
    /\ coords = <<>>
    /\ gpx = <<>>
    /\ error = "none"
    /\ fallbacks = 0
    /\ stages = <<"fetch_graph">>
    /\ CorridorIdle /\ stitched = <<>>
    /\ RepairIdle
    /\ LaterIdle

request == <<world, start, end, params, radius, strategy>>

Goto(stage) == /\ pc' = stage
               /\ stages' = Append(stages, stage)

\* return compute_route(start, end, params, radius_meters=radius_meters)
FallbackToPlain ==
    /\ mode' = "plain"
    /\ fallbacks' = fallbacks + 1
    /\ Goto("fetch_graph")

\* A fallback that forgets the caller's radius and fetches by bounding box.
FetchedWithoutRadius ==
    FetchArea(world, start, end, IF mode # strategy THEN Missing ELSE radius,
              BBoxBuffer(mode))

\* The graph the provider returns for the request of the running function.
Fetched == FetchArea(world, start, end, radius, BBoxBuffer(mode))

\* fetch_graph and ensure_edge_lengths
FetchGraph ==
    /\ pc = "fetch_graph"
    /\ Fetched.edges # {}
    /\ G' = _ensure_edge_lengths(Fetched)
    /\ Goto("score_edges")
    /\ UNCHANGED <<request, mode, H, path, coords, gpx, error, fallbacks>>
    /\ UNCHANGED outsideRoute

\* The provider raises: nothing in the area, a timeout, an area too large.
FetchFails ==
    /\ pc = "fetch_graph"
    /\ error' = "fetch"
    /\ Goto("failed")
    /\ UNCHANGED <<request, mode, G, H, path, coords, gpx, fallbacks>>
    /\ UNCHANGED outsideRoute

\* compute_edge_weights
ScoreStep ==
    /\ pc = "score_edges"
    /\ G' = ScoreEdges(G, params)
    /\ Goto(IF mode = "heuristic" THEN "simplify" ELSE "search")
    /\ UNCHANGED <<request, mode, H, path, coords, gpx, error, fallbacks>>
    /\ UNCHANGED outsideRoute

\* simplify_graph: an intersection graph with nodes
SimplifyStep ==
    /\ pc = "simplify"
    /\ simplify_graph_to_intersections(G).nodes # {}
    /\ H' = simplify_graph_to_intersections(G)
    /\ Goto("search")
    /\ UNCHANGED <<request, mode, G, path, coords, gpx, error, fallbacks>>
    /\ UNCHANGED outsideRoute

\* simplify_graph: len(H) == 0
SimplifyEmpty ==
    /\ pc = "simplify"
    /\ simplify_graph_to_intersections(G).nodes = {}
    /\ H' = simplify_graph_to_intersections(G)
    /\ FallbackToPlain
    /\ UNCHANGED <<request, G, path, coords, gpx, error>>
    /\ UNCHANGED outsideRoute

\* The A* endpoints.
SNode == nearest_intersection(G, H, nearest_nodes(G, start))

TNode == nearest_intersection(G, H, nearest_nodes(G, end))

AStarResult == astar_path(WeighH(H, end, params, HEADING_THRESHOLD), SNode, TNode, end)

\* weight loop on H and astar_search
SearchAStar ==
    /\ pc = "search"
    /\ mode = "heuristic"
    /\ AStarResult # <<>>
    /\ H' = WeighH(H, end, params, HEADING_THRESHOLD)
    /\ path' = AStarResult
    /\ Goto("reconstruct")
    /\ UNCHANGED <<request, mode, G, coords, gpx, error, fallbacks>>
    /\ UNCHANGED outsideRoute

\* astar_search raised
SearchAStarFails ==
    /\ pc = "search"
    /\ mode = "heuristic"
    /\ AStarResult = <<>>
    /\ H' = WeighH(H, end, params, HEADING_THRESHOLD)
    /\ FallbackToPlain
    /\ UNCHANGED <<request, G, path, coords, gpx, error>>
    /\ UNCHANGED outsideRoute

\* A plain search that minimises length instead of the edge cost.
PlainResultByLength ==
    shortest_path(G, nearest_nodes(G, start), nearest_nodes(G, end), "length")

PlainResult == shortest_path(G, nearest_nodes(G, start), nearest_nodes(G, end), "weight")

\* shortest_path of compute_route
SearchPlain ==
    /\ pc = "search"
    /\ mode = "plain"
    /\ PlainResult # <<>>
    /\ path' = PlainResult
    /\ Goto("reconstruct")
    /\ UNCHANGED <<request, mode, G, H, coords, gpx, error, fallbacks>>
    /\ UNCHANGED outsideRoute

\* A plain search that fetches again instead of raising.
SearchPlainFailsRetries ==
    /\ pc = "search"
    /\ mode = "plain"
    /\ PlainResult = <<>>
    /\ Goto("fetch_graph")
    /\ UNCHANGED <<request, mode, G, H, path, coords, gpx, error, fallbacks>>
    /\ UNCHANGED outsideRoute

\* except nx.NetworkXNoPath: raise
SearchPlainFails ==
    /\ pc = "search"
    /\ mode = "plain"
    /\ PlainResult = <<>>
    /\ error' = "no_path"
    /\ Goto("failed")
    /\ UNCHANGED <<request, mode, G, H, path, coords, gpx, fallbacks>>
    /\ UNCHANGED outsideRoute

\* reconstruct_coords_from_original_graph, endpoints, generate_gpx
ReconstructHeuristic ==
    /\ pc = "reconstruct"
    /\ mode = "heuristic"
    /\ coords' = EnsureEndpoints(ReconstructCoords(G, path, 1, <<>>), start, end)
    /\ gpx' = coords'
    /\ Goto("done")
    /\ UNCHANGED <<request, mode, G, H, path, error, fallbacks>>
    /\ UNCHANGED outsideRoute

\* convert nodes to coordinates, generate GPX
ReconstructPlain ==
    /\ pc = "reconstruct"
    /\ mode = "plain"
    /\ coords' = NodeCoords(G, path)
    /\ gpx' = coords'
    /\ Goto("done")
    /\ UNCHANGED <<request, mode, G, H, path, error, fallbacks>>
    /\ UNCHANGED outsideRoute

Next ==
    \/ FetchGraph
    \/ FetchFails
    \/ ScoreStep
    \/ SimplifyStep
    \/ SimplifyEmpty
    \/ SearchAStar
    \/ SearchAStarFails
    \/ SearchPlain
    \/ SearchPlainFails
    \/ ReconstructHeuristic
    \/ ReconstructPlain

Spec == Init /\ [][Next]_vars

----------------------------------------------------------------------------
(* The two strategies as functions of the request (the provider answering) *)

\* compute_route: [status, coords]; status is "ok", "fetch" (the provider
\* found nothing in the area) or "no_path".
compute_route(w, s, e, p, r, buf) ==
    LET F == FetchArea(w, s, e, r, buf)
    IN  IF F.edges = {} THEN [status |-> "fetch", coords |-> <<>>]
        ELSE
        LET Gs    == ScoreEdges(_ensure_edge_lengths(F), p)
            route == shortest_path(Gs, nearest_nodes(Gs, s), nearest_nodes(Gs, e), "weight")
        IN  IF route = <<>> THEN [status |-> "no_path", coords |-> <<>>]
            ELSE [status |-> "ok", coords |-> NodeCoords(Gs, route)]

----------------------------------------------------------------------------
(* Claims about one route computation *)

\* C1: on every successful return of either strategy the coordinate list
\* starts with the requested start and ends with the requested end.
C1_EndpointsAreRequested ==
    (pc = "done" /\ coords # <<>>) => (coords[1] = start /\ Last(coords) = end)

\* C2: whenever either strategy returns without raising, the returned
\* coordinate sequence is non-empty.
C2_ReturnedPathNonEmpty == pc = "done" => coords # <<>>

\* The call has returned or raised.
Finished == pc \in {"done", "failed"}

\* The heuristic call could not search: H is empty or A* raised.
HeuristicUnavailable == H.nodes = {} \/ AStarResult = <<>>

\* C3: when the intersection graph is empty or A* raises, the call returns
\* exactly what compute_route returns for the same start, end, preferences
\* and radius (or raises what it raises), and never searches or
\* reconstructs on the intersection graph.
C3_FallbackIsPlainResult ==
    LET r == compute_route(world, start, end, params, radius, BBoxBuffer("plain"))
    IN  /\ (strategy = "heuristic" /\ pc \in {"search", "reconstruct"} /\ mode = "heuristic")
             => H.nodes # {}
        /\ (pc = "reconstruct" /\ mode = "heuristic") => ~HeuristicUnavailable
        /\ (strategy = "heuristic" /\ Finished /\ G # EmptyGraph /\ HeuristicUnavailable)
             => /\ fallbacks = 1
                /\ pc = "done" => (r.status = "ok" /\ coords = r.coords /\ gpx = r.coords)
                /\ pc = "failed" => /\ error \in {"fetch", "no_path"}
                                    /\ r.status = "fetch" => error = "fetch"
                                    /\ error = "no_path" => r.status = "no_path"

C3_Witness ==
    /\ strategy = "heuristic" /\ pc = "done" /\ fallbacks = 1
    /\ H.nodes = {} /\ Len(coords) >= 3 /\ radius # Missing

\* C4: a successful return of the heuristic strategy never holds a route in
\* which the stretch of a pair of consecutive A* nodes is missing: a pair
\* that cannot be re-expanded sends the request to the plain strategy.
C4_NoMissingStretch ==
    (pc = "done" /\ fallbacks = 0 /\ strategy = "heuristic")
        => \A i \in 1..(Len(path) - 1) : ReconstructPair(G, path[i], path[i + 1]) # <<>>

\* The stages one may follow the other, and the single step back.
StageSuccessors(stage) ==
    CASE stage = "fetch_graph" -> {"score_edges", "failed"}
      [] stage = "score_edges" -> {"simplify", "search"}
      [] stage = "simplify"    -> {"search"}
      [] stage = "search"      -> {"reconstruct", "failed"}
      [] stage = "reconstruct" -> {"done"}
      [] OTHER                 -> {}

IsFallbackStep(i) ==
    stages[i] \in {"simplify", "search"} /\ stages[i + 1] = "fetch_graph"

\* C5: the stages run in the order fetch_graph, score_edges, optional
\* simplify, search, reconstruct, done; the only step back is one fallback
\* to the plain strategy; a failure after it, or a failed fetch at any
\* point, ends the call with the error raised to the caller.
C5_StageOrderSingleFallback ==
    LET steps == 1..(Len(stages) - 1)
        backs == { i \in steps : IsFallbackStep(i) }
    IN  /\ stages[1] = "fetch_graph" /\ Last(stages) = pc
        /\ \A i \in steps : stages[i + 1] \in StageSuccessors(stages[i]) \/ IsFallbackStep(i)
        /\ Cardinality(backs) <= 1 /\ Cardinality(backs) = fallbacks
        /\ \A i \in backs : \A j \in steps : j > i => stages[j + 1] # "simplify"
        /\ (error # "none") <=> (pc = "failed")
        /\ Finished => ~ENABLED Next
        /\ (strategy = "plain") => (backs = {} /\ \A i \in 1..Len(stages) : stages[i] # "simplify")

C5_Witness ==
    /\ pc = "failed" /\ error = "no_path" /\ fallbacks = 1
    /\ stages = <<"fetch_graph", "score_edges", "simplify", "search",
                  "fetch_graph", "score_edges", "search", "failed">>

\* All node sequences without repeats over the nodes of a graph.
SimplePaths(Gr, a, b) ==
    { q \in UNION { [1..k -> NodesOf(Gr)] : k \in 1..Cardinality(NodesOf(Gr)) } :
        /\ q[1] = a /\ q[Len(q)] = b
        /\ \A i, j \in 1..Len(q) : i # j => q[i] # q[j]
        /\ \A i \in 1..(Len(q) - 1) : EdgesBetween(Gr, q[i], q[i + 1]) # {} }

\* Total Edge Cost Model weight of a node sequence, the cheapest parallel
\* edge at each step.
RECURSIVE PathCost(_, _, _, _)
PathCost(Gr, p, q, i) ==
    IF i >= Len(q) THEN 0
    ELSE SetMin({ EdgeWeight(e, p) : e \in EdgesBetween(Gr, q[i], q[i + 1]) })
         + PathCost(Gr, p, q, i + 1)

\* C6: the plain strategy returns the coordinates of a minimum-total-weight
\* directed path from the node nearest the start to the node nearest the
\* end, and raises no-path, with no coordinates and no track, exactly when
\* no directed path joins the two nodes.
C6_PlainIsMinimumWeight ==
    (strategy = "plain" /\ G # EmptyGraph /\ Finished /\ error # "fetch") =>
        LET a   == nearest_nodes(G, start)
            b   == nearest_nodes(G, end)
            all == SimplePaths(G, a, b)
        IN  /\ pc = "done" <=> all # {}
            /\ pc = "done" =>
                  /\ path \in all
                  /\ \A q \in all : PathCost(G, params, path, 1) <= PathCost(G, params, q, 1)
                  /\ coords = [i \in 1..Len(path) |-> world.y[path[i]]]
                  /\ gpx = coords
            /\ pc = "failed" => (error = "no_path" /\ coords = <<>> /\ gpx = <<>>)

C6_Witness ==
    /\ strategy = "plain" /\ pc = "done" /\ Len(path) = 3
    /\ \E q \in SimplePaths(G, path[1], path[3]) :
          /\ Len(q) = 2
          /\ PathCost(G, params, path, 1) < PathCost(G, params, q, 1)

----------------------------------------------------------------------------
(* The corridor stitcher: run_segmented of scripts/run_poc_segmented.py *)

\* Coordinates of corridor requests range over 0..MaxCorridorCoord.
MaxCorridorCoord == 12

\* --radius: the initial radius ranges over 1..MaxRadius.
MaxRadius == 4

\* --segment-km
SegmentLengths == {4, 6}

\* The provider's map along the corridor: unevenly spaced nodes, two-way
\* streets and a pair of one-way streets.
CorridorY == <<2, 4, 7, 12>>

CorridorStreets ==
    { { Edge(1, 2, 0, 2, "residential", <<"asphalt">>, <<>>),
        Edge(2, 1, 0, 2, "residential", <<"asphalt">>, <<>>) },
      { Edge(2, 3, 0, 3, "tertiary", <<>>, <<>>),
        Edge(3, 2, 0, 3, "tertiary", <<>>, <<>>) },
      { Edge(3, 4, 0, 5, "residential", <<"gravel">>, <<>>) },
      { Edge(4, 3, 0, 5, "residential", <<"gravel">>, <<>>) } }

CorridorTowns ==
    { [y |-> CorridorY, edges |-> UNION ss] : ss \in (SUBSET CorridorStreets) \ {{}} }

\* haversine_km
haversine_km(a, b) == _haversine(a, b)

\* n_segments = max(1, math.ceil(dist_km / segment_km))
NSegments(a, b, seg_len) == Max2(1, (haversine_km(a, b) + seg_len - 1) \div seg_len)

\* interp_points: n + 1 points a + (b - a) * i / n.  Corridors are drawn so
\* that every chord end is a whole coordinate (see WholeChords).
interp_points(a, b, n) == [i \in 1..(n + 1) |-> a + ((b - a) * (i - 1)) \div n]

WholeChords(a, b, seg_len) == (b - a) % NSegments(a, b, seg_len) = 0

\* Index of the first point of seg that differs from last (Len(seg) + 1 if none).
RECURSIVE SkipEqual(_, _, _)
SkipEqual(sq, last, i) ==
    IF i <= Len(sq) /\ sq[i] = last THEN SkipEqual(sq, last, i + 1) ELSE i

\* Plain concatenation of the segments' lists.
RECURSIVE Flatten(_)
Flatten(lists) == IF lists = <<>> THEN <<>> ELSE Head(lists) \o Flatten(Tail(lists))

\* A stitcher that keeps the duplicate at the boundary.
stitch_concat(lists) == Flatten(lists)

\* stitched[-1] of an empty list: stitch_coords raises IndexError.
stitch_raises(lists) ==
    /\ lists # <<>>
    /\ lists[1] = <<>>
    /\ \E k \in 2..Len(lists) : lists[k] # <<>>

RECURSIVE StitchLoop(_, _, _)
StitchLoop(lists, k, acc) ==
    IF k > Len(lists) THEN acc
    ELSE IF lists[k] = <<>> THEN StitchLoop(lists, k + 1, acc)
    ELSE LET i == SkipEqual(lists[k], Last(acc), 1)
         IN  StitchLoop(lists, k + 1, acc \o SubSeq(lists[k], i, Len(lists[k])))

stitch_coords(lists) ==
    IF lists = <<>> THEN <<>> ELSE StitchLoop(lists, 2, lists[1])

\* A retry that doubles the radius.
DoubleRadius(r) == r * 2

\* cur_radius = int(cur_radius * 1.5)
EscalateRadius(r) == (r * 3) \div 2

\* while attempt < 3
MAX_ATTEMPTS == 3

InitCorridor ==
    /\ world \in CorridorTowns
    /\ start \in 0..MaxCorridorCoord
    /\ end \in 0..MaxCorridorCoord
    /\ params \in RouteParams
    /\ segment_km \in SegmentLengths
    /\ radius_m \in 1..MaxRadius
    /\ WholeChords(start, end, segment_km)
    /\ points = interp_points(start, end, NSegments(start, end, segment_km))
    /\ seg = 1
    /\ attempt = 0
    /\ success = FALSE
    /\ cur_radius = radius_m
    /\ all_coords = <<>>
    /\ stitched = <<>>
    /\ out = NoFile
    /\ cpc = "segment"
    /\ cerror = "none"
    /\ tried = <<>>
    /\ RouteIdle
    /\ RepairIdle
    /\ LaterIdle

corridorRequest == <<world, start, end, params, segment_km, radius_m, points>>

\* What run_segmented leaves alone.
outsideCorridor == <<radius, strategy, pc, mode, G, H, path, coords, gpx, error,
                     fallbacks, stages, repairVars, laterVars>>

\* compute_route(s, e, params, radius_meters=cur_radius)
SegmentResult ==
    compute_route(world, points[seg], points[seg + 1], params, cur_radius,
                  BBoxBuffer("plain"))

Call(ok) == [segment |-> seg, radius |-> cur_radius, ok |-> ok]

\* the try block: the call returns
AttemptSucceeds ==
    /\ cpc = "segment"
    /\ attempt < MAX_ATTEMPTS /\ ~success
    /\ SegmentResult.status = "ok"
    /\ all_coords' = Append(all_coords, SegmentResult.coords)
    /\ success' = TRUE
    /\ tried' = Append(tried, Call(TRUE))
    /\ UNCHANGED <<corridorRequest, seg, attempt, cur_radius, stitched, out, cpc, cerror>>
    /\ UNCHANGED outsideCorridor

\* the except block: the call raised (no graph, no path, or the provider
\* timed out), then time.sleep(2)
AttemptFails ==
    /\ cpc = "segment"
    /\ attempt < MAX_ATTEMPTS /\ ~success
    /\ attempt' = attempt + 1
    /\ cur_radius' = EscalateRadius(cur_radius)
    /\ tried' = Append(tried, Call(FALSE))
    /\ UNCHANGED <<corridorRequest, seg, success, all_coords, stitched, out, cpc, cerror>>
    /\ UNCHANGED outsideCorridor

\* time.sleep(1) and the next iteration of the for loop
NextSegment ==
    /\ cpc = "segment"
    /\ success
    /\ seg < Len(points) - 1
    /\ seg' = seg + 1
    /\ attempt' = 0
    /\ success' = FALSE
    /\ cur_radius' = radius_m
    /\ UNCHANGED <<corridorRequest, all_coords, stitched, out, cpc, cerror, tried>>
    /\ UNCHANGED outsideCorridor

\* A stitcher that skips the segment it could not solve.
GiveUpSkipsSegment ==
    /\ cpc = "segment"
    /\ ~success /\ attempt >= MAX_ATTEMPTS
    /\ seg < Len(points) - 1
    /\ seg' = seg + 1
    /\ attempt' = 0
    /\ cur_radius' = radius_m
    /\ UNCHANGED <<corridorRequest, success, all_coords, stitched, out, cpc, cerror, tried>>
    /\ UNCHANGED outsideCorridor

\* raise RuntimeError('Failed to compute segment ... after retries')
GiveUp ==
    /\ cpc = "segment"
    /\ ~success /\ attempt >= MAX_ATTEMPTS
    /\ cerror' = "RuntimeError"
    /\ cpc' = "failed"
    /\ UNCHANGED <<corridorRequest, seg, attempt, cur_radius, success, all_coords,
                   stitched, out, tried>>
    /\ UNCHANGED outsideCorridor

\* stitch_coords(all_coords), the track of the stitched points, the file
StitchAndWrite ==
    /\ cpc = "segment"
    /\ success
    /\ seg = Len(points) - 1
    /\ IF stitch_raises(all_coords)
       THEN /\ cerror' = "IndexError"
            /\ cpc' = "failed"
            /\ UNCHANGED <<stitched, out>>
       ELSE /\ stitched' = stitch_coords(all_coords)
            /\ out' = [written |-> TRUE, track |-> stitch_coords(all_coords)]
            /\ cpc' = "done"
            /\ UNCHANGED cerror
    /\ UNCHANGED <<corridorRequest, seg, attempt, cur_radius, success, all_coords, tried>>
    /\ UNCHANGED outsideCorridor

NextCorridor ==
    \/ AttemptSucceeds
    \/ AttemptFails
    \/ NextSegment
    \/ GiveUp
    \/ StitchAndWrite

SpecCorridor == InitCorridor /\ [][NextCorridor]_vars

----------------------------------------------------------------------------
(* Claims about the corridor stitcher *)

\* The calls made for segment k, in order.
CallsOf(k) == LET OfSegment(c) == c.segment = k IN SelectSeq(tried, OfSegment)

Segments == 1..(Len(points) - 1)

C8_InOrderAndFailureStops ==
    /\ tried # <<>> => tried[1].segment = 1
    /\ \A j \in 1..(Len(tried) - 1) :
          \/ tried[j + 1].segment = tried[j].segment /\ ~tried[j].ok
          \/ tried[j + 1].segment = tried[j].segment + 1 /\ tried[j].ok
    /\ \A j \in 1..Len(tried) : tried[j].segment <= seg
    /\ (Len(CallsOf(seg)) = MAX_ATTEMPTS /\ ~Last(tried).ok /\ cpc # "failed") =>
          (ENABLED GiveUp /\ ~ENABLED (AttemptSucceeds \/ AttemptFails \/ NextSegment
                                        \/ StitchAndWrite))
    /\ cpc = "failed" =>
          /\ cerror = "RuntimeError"
          /\ ~Last(tried).ok /\ Last(tried).segment = seg
          /\ Len(all_coords) = seg - 1
          /\ stitched = <<>> /\ out = NoFile
          /\ ~ENABLED NextCorridor
    /\ out.written => (cpc = "done" /\ Len(all_coords) = Len(points) - 1)

\* The second of three segments failed: the third was never searched.
C8_Witness ==
    /\ cpc = "failed" /\ seg = 2 /\ Len(points) = 4
    /\ Len(all_coords) = 1 /\ Len(CallsOf(2)) = 3

NoRepeatedPoint(sq) == \A i \in 1..(Len(sq) - 1) : sq[i] # sq[i + 1]

\* A list with every run of equal consecutive points reduced to one point.
RECURSIVE Collapse(_)
Collapse(sq) ==
    IF Len(sq) <= 1 THEN sq
    ELSE IF sq[1] = sq[2] THEN Collapse(Tail(sq))
    ELSE <<sq[1]>> \o Collapse(Tail(sq))

----------------------------------------------------------------------------
(* Gap repair after stitching (tests/test_generate_100km.py) and the gap
   report (tests/test_integration_requirements.py) *)

\* if gap > 1000.0
GAP_THRESHOLD == 1000

\* while attempts < 4 and bridged is None
MAX_BRIDGE_ATTEMPTS == 4

\* buf = 0.05, in hundredths of a degree
FIRST_BUFFER == 5

\* Stitched paths handed to the repair have up to MaxStitched points.
MaxStitched == 3

\* A sparse map: nodes 600 m and 1500 m apart.
RepairY == <<0, 600, 1200, 2700>>

RepairStreets ==
    { { Edge(1, 2, 0, 600, "residential", <<"asphalt">>, <<>>),
        Edge(2, 1, 0, 600, "residential", <<"asphalt">>, <<>>) },
      { Edge(2, 3, 0, 600, "residential", <<>>, <<>>),
        Edge(3, 2, 0, 600, "residential", <<>>, <<>>) },
      { Edge(3, 4, 0, 1500, "residential", <<"asphalt">>, <<>>) } }

RepairTowns ==
    { [y |-> RepairY, edges |-> UNION ss] : ss \in (SUBSET RepairStreets) \ {{}} }

RepairCoords == {0, 600, 1200, 2700, 3000}

\* Stitched paths: no two consecutive points equal.
StitchedPaths ==
    { sq \in UNION { [1..n -> RepairCoords] : n \in 2..MaxStitched } :
        \A i \in 1..(Len(sq) - 1) : sq[i] # sq[i + 1] }

\* haversine_m
haversine_m(a, b) == _haversine(a, b)

\* check_route_gaps: the gaps larger than max_gap_m, in path order
RECURSIVE LargeGaps(_, _, _)
LargeGaps(sq, i, max_gap_m) ==
    IF i > Len(sq) THEN <<>>
    ELSE (IF haversine_m(sq[i - 1], sq[i]) > max_gap_m
          THEN <<haversine_m(sq[i - 1], sq[i])>> ELSE <<>>)
         \o LargeGaps(sq, i + 1, max_gap_m)

check_route_gaps(sq, max_gap_m) == LargeGaps(sq, 2, max_gap_m)

InitRepair ==
    /\ world \in RepairTowns
    /\ params \in RouteParams
    /\ stitched \in StitchedPaths
    /\ start = stitched[1]
    /\ end = Last(stitched)
    /\ rflow \in {"generate_100km", "no_large_gaps"}
    /\ rpc = IF rflow = "generate_100km" THEN "scan" ELSE "check"
    /\ idx = 2
    /\ bbox_buf = FIRST_BUFFER
    /\ attempts = 0
    /\ final_coords = IF rflow = "generate_100km" THEN <<stitched[1]>> ELSE stitched
    /\ reported = <<>>
    /\ artifact = NoFile
    /\ RouteIdle
    /\ CorridorIdle
    /\ LaterIdle

\* What the repair leaves alone.
outsideRepair == <<routeVars, corridorVars, laterVars>>

PairA == stitched[idx - 1]

PairB == stitched[idx]

IsGap == haversine_m(PairA, PairB) > GAP_THRESHOLD

NextPair ==
    /\ idx' = idx + 1
    /\ attempts' = 0
    /\ bbox_buf' = FIRST_BUFFER

\* gap <= 1000: final_coords.append(b)
KeepPoint ==
    /\ rpc = "scan"
    /\ idx <= Len(stitched)
    /\ ~IsGap
    /\ final_coords' = Append(final_coords, PairB)
    /\ NextPair
    /\ UNCHANGED <<rflow, rpc, reported, artifact>>
    /\ UNCHANGED outsideRepair

\* compute_route(a, b, params, bbox_buffer=buf)
BridgeResult == compute_route(world, PairA, PairB, params, Missing, bbox_buf)

\* a bridging path of at least two points: extend with it, without the
\* points at its head that equal the last point, and go on with the next pair
BridgeSucceeds ==
    /\ rpc = "scan"
    /\ idx <= Len(stitched)
    /\ IsGap
    /\ attempts < MAX_BRIDGE_ATTEMPTS
    /\ BridgeResult.status = "ok"
    /\ Len(BridgeResult.coords) >= 2
    /\ LET bridged == BridgeResult.coords
           j == SkipEqual(bridged, Last(final_coords), 1)
       IN  final_coords' = final_coords \o SubSeq(bridged, j, Len(bridged))
    /\ NextPair
    /\ UNCHANGED <<rflow, rpc, reported, artifact>>
    /\ UNCHANGED outsideRepair

\* A retry loop that runs while attempts <= 4.
BridgeFailsOnceMore ==
    /\ rpc = "scan"
    /\ idx <= Len(stitched)
    /\ IsGap
    /\ attempts <= MAX_BRIDGE_ATTEMPTS
    /\ attempts' = attempts + 1
    /\ bbox_buf' = bbox_buf * 2
    /\ UNCHANGED <<rflow, rpc, idx, final_coords, reported, artifact>>
    /\ UNCHANGED outsideRepair

\* the call raised (no graph, no path, the provider timed out) or returned
\* fewer than two points: attempts += 1, buf *= 2
BridgeFails ==
    /\ rpc = "scan"
    /\ idx <= Len(stitched)
    /\ IsGap
    /\ attempts < MAX_BRIDGE_ATTEMPTS
    /\ attempts' = attempts + 1
    /\ bbox_buf' = bbox_buf * 2
    /\ UNCHANGED <<rflow, rpc, idx, final_coords, reported, artifact>>
    /\ UNCHANGED outsideRepair

\* fallback to straight append
KeepStraight ==
    /\ rpc = "scan"
    /\ idx <= Len(stitched)
    /\ IsGap
    /\ attempts >= MAX_BRIDGE_ATTEMPTS
    /\ final_coords' = Append(final_coords, PairB)
    /\ NextPair
    /\ UNCHANGED <<rflow, rpc, reported, artifact>>
    /\ UNCHANGED outsideRepair

\* assert len(stitched) >= 3 and the artifact
WriteArtifact ==
    /\ rpc = "scan"
    /\ idx > Len(stitched)
    /\ IF Len(final_coords) >= 3
       THEN /\ artifact' = [written |-> TRUE, track |-> final_coords]
            /\ rpc' = "done"
       ELSE /\ rpc' = "assert_failed"
            /\ UNCHANGED artifact
    /\ UNCHANGED <<rflow, idx, bbox_buf, attempts, final_coords, reported>>
    /\ UNCHANGED outsideRepair

\* check_route_gaps(stitched, max_gap_m=1000.0): pytest.fail with the large
\* gaps, else the summary line (max of the empty list of large gaps raises)
CheckRouteGaps ==
    /\ rpc = "check"
    /\ reported' = check_route_gaps(final_coords, GAP_THRESHOLD)
    /\ rpc' = IF reported' # <<>> THEN "failed" ELSE "value_error"
    /\ UNCHANGED <<rflow, idx, bbox_buf, attempts, final_coords, artifact>>
    /\ UNCHANGED outsideRepair

NextRepair ==
    \/ KeepPoint
    \/ BridgeSucceeds
    \/ BridgeFails
    \/ KeepStraight
    \/ WriteArtifact
    \/ CheckRouteGaps

SpecRepair == InitRepair /\ [][NextRepair]_vars

----------------------------------------------------------------------------
(* Claims about gap repair *)

\* The adjacent pairs of the final path farther apart than the threshold.
OverThreshold ==
    { i \in 1..(Len(final_coords) - 1) :
        haversine_m(final_coords[i], final_coords[i + 1]) > GAP_THRESHOLD }

\* C10: after stitching and gap repair every adjacent pair of output points
\* farther apart than the gap threshold is reported as an unresolved gap.
C10_EveryLargeGapReported ==
    rpc \in {"done", "failed", "value_error"} =>
        /\ Len(reported) = Cardinality(OverThreshold)
        /\ \A i \in OverThreshold :
              \E j \in 1..Len(reported) :
                  reported[j] = haversine_m(final_coords[i], final_coords[i + 1])

----------------------------------------------------------------------------
(* The split of a corridor into chords, in floating-point arithmetic:
   haversine_km, interp_points and the for loop of run_segmented *)

\* A float is modelled with FloatDigits significant decimal digits (a Python
\* float has 53 binary ones); its value is a whole number of hundredths.
FloatDigits == 2

FloatUnit == 100

\* Latitudes of corridor ends range over -MaxLat..MaxLat degrees.
MaxLat == 20

RECURSIVE FlStep(_, _, _)
FlStep(n, den, step) ==
    IF n < den * step * Pow(10, FloatDigits) THEN step ELSE FlStep(n, den, step * 10)

\* num / den rounded to the nearest float, ties to the even significand.
Fl(num, den) ==
    LET n    == Abs(num)
        step == FlStep(n, den, 1)
        q    == n \div (den * step)
        r    == n - q * den * step
        up   == 2 * r > den * step \/ (2 * r = den * step /\ q % 2 = 1)
    IN  (IF num < 0 THEN 0 - 1 ELSE 1) * (IF up THEN q + 1 ELSE q) * step

FlAdd(x, y) == Fl(x + y, 1)

FlSub(x, y) == Fl(x - y, 1)

FlMul(x, y) == Fl(x * y, FloatUnit)

FlDiv(x, y) == Fl(x * FloatUnit, y)

\* math.ceil of a float
Ceil(x) == (x + FloatUnit - 1) \div FloatUnit

\* Kilometres per degree of latitude, R * pi / 180 with R = 6371.0, as a float.
KmPerDegree == Fl(111195 * FloatUnit, 1000)

\* haversine_km of two points of one meridian, as floats
FloatHaversineKm(a, b) == FlMul(Abs(FlSub(b, a)), KmPerDegree)

\* max(1, math.ceil(dist_km / segment_km))
FloatNSegments(dist_km, seg_km) == Max2(1, Ceil(FlDiv(dist_km, seg_km)))

\* interp_points: t = i / n; lat = a[0] + (b[0] - a[0]) * t
FloatInterpPoints(a, b, n) ==
    [k \in 1..(n + 1) |-> FlAdd(a, FlMul(FlSub(b, a), FlDiv((k - 1) * FloatUnit, n * FloatUnit)))]

\* The floats among the half degrees up to MaxLat, of both signs.
InputLats ==
    { sgn * v : sgn \in {0 - 1, 1},
                v \in { x \in 0..(MaxLat * FloatUnit) :
                           x % (FloatUnit \div 2) = 0 /\ Fl(x, 1) = x } }

\* --segment-km, as floats
InputSegmentKm == { 1000 * FloatUnit, 2000 * FloatUnit }

\* No request is being served.
RequestIdle ==
    /\ world = EmptyGraph /\ start = 0 /\ end = 0 /\ params = Prefs(1, 1, 0, 1)

InitChords ==
    /\ wp_start \in InputLats
    /\ wp_end \in InputLats
    /\ wp_seg_km \in InputSegmentKm
    /\ wp_n = 0
    /\ wp_points = <<>>
    /\ wp_queries = <<>>
    /\ wp_pc = "start"
    /\ RequestIdle
    /\ RouteIdle
    /\ CorridorIdle /\ stitched = <<>>
    /\ RepairIdle
    /\ CostIdle
    /\ HybridIdle
    /\ BridgeIdle
    /\ SimplifyIdle

outsideChords == <<routeVars, corridorVars, repairVars, costVars, hybridVars,
                   bridgeVars, simplifyVars>>

\* dist_km, n_segments and points
SplitCorridor ==
    /\ wp_pc = "start"
    /\ wp_n' = FloatNSegments(FloatHaversineKm(wp_start, wp_end), wp_seg_km)
    /\ wp_points' = FloatInterpPoints(wp_start, wp_end, wp_n')
    /\ wp_pc' = "loop"
    /\ UNCHANGED <<wp_start, wp_end, wp_seg_km, wp_queries>>
    /\ UNCHANGED outsideChords

\* for i in range(n_segments): s = points[i]; e = points[i+1]
IssueQuery ==
    /\ wp_pc = "loop"
    /\ Len(wp_queries) < wp_n
    /\ LET i == Len(wp_queries) + 1
       IN  wp_queries' = Append(wp_queries, <<wp_points[i], wp_points[i + 1]>>)
    /\ UNCHANGED <<wp_start, wp_end, wp_seg_km, wp_n, wp_points, wp_pc>>
    /\ UNCHANGED outsideChords

\* the loop is over
AllQueriesIssued ==
    /\ wp_pc = "loop"
    /\ Len(wp_queries) >= wp_n
    /\ wp_pc' = "done"
    /\ UNCHANGED <<wp_start, wp_end, wp_seg_km, wp_n, wp_points, wp_queries>>
    /\ UNCHANGED outsideChords

NextChords ==
    \/ SplitCorridor
    \/ IssueQuery
    \/ AllQueriesIssued

SpecChords == InitChords /\ [][NextChords]_vars

\* C11: a corridor is split into n = max(1, ceil(distance / segment
\* length)) chords by n + 1 waypoints; the first waypoint is the corridor
\* start, the last is the corridor end, the end of chord i is the start of
\* chord i + 1, and exactly n sub-queries are issued (177 km at 20 km
\* chords gives at least 8).
C11_ChordsCoverCorridor ==
    /\ NSegments(0, 177, 20) >= 8
    /\ wp_pc = "done" =>
          /\ wp_n = FloatNSegments(FloatHaversineKm(wp_start, wp_end), wp_seg_km)
          /\ Len(wp_points) = wp_n + 1
          /\ Len(wp_queries) = wp_n
          /\ wp_queries[1][1] = wp_start
          /\ wp_queries[wp_n][2] = wp_end
          /\ \A i \in 1..(wp_n - 1) : wp_queries[i][2] = wp_queries[i + 1][1]

----------------------------------------------------------------------------
(* One call of the edge cost model *)

\* data.get('length'): absent, zero and positive lengths in metres.
InputLengths == { Missing, 0, 1, 3 }

\* data.get('highway'): absent, a class, a class without a penalty, a list.
InputHighways ==
    { [isList |-> FALSE, items |-> <<>>],
      [isList |-> FALSE, items |-> <<"residential">>],
      [isList |-> FALSE, items |-> <<"primary">>],
      [isList |-> FALSE, items |-> <<"motorway">>],
      [isList |-> FALSE, items |-> <<"cycleway">>],
      [isList |-> FALSE, items |-> <<"track">>],
      [isList |-> TRUE,  items |-> <<"primary", "residential">>],
      [isList |-> TRUE,  items |-> <<>>] }

\* data.get('surface'): absent, plain, compound and unknown labels.
InputSurfaces ==
    { <<>>, <<"asphalt">>, <<"asphalt", "lanes">>, <<"gravel">>,
      <<"gravel", "compacted">>, <<"unpaved">>, <<"dirt">>, <<"mud">> }

\* An edge record of the cost model.
EdgeDataOf(length, highway, surface, is_list) ==
    [length |-> length, highway |-> highway, surface |-> surface,
     surface_list |-> is_list]

\* A preference is absent, 0.0, 0.5 or 1.0; heatmap_influence is absent, 0.0
\* or 1.0; surface_weight_factor is absent or a whole exponent up to MaxExp.
InputPrefs == { Missing, 0, 1, 2 }

InputHeat == { Missing, 0, 2 }

InputExponents == { Missing } \cup 1..MaxExp

InitCost ==
    /\ \E l \in InputLengths, h \in InputHighways, s \in InputSurfaces,
          b \in BOOLEAN : ec_data = EdgeDataOf(l, h, s, b)
    /\ \E pm \in InputPrefs, pu \in InputPrefs, hi \in InputHeat,
          f \in InputExponents : ec_params = Prefs(pm, pu, hi, f)
    /\ ec_weight = Missing
    /\ ec_pc = "call"
    /\ RequestIdle
    /\ RouteIdle
    /\ CorridorIdle /\ stitched = <<>>
    /\ RepairIdle
    /\ ChordIdle
    /\ HybridIdle
    /\ BridgeIdle
    /\ SimplifyIdle

outsideCost == <<routeVars, corridorVars, repairVars, chordVars, hybridVars,
                 bridgeVars, simplifyVars>>

\* _edge_penalty returns its weight
EdgePenaltyReturns ==
    /\ ec_pc = "call"
    /\ ~ _edge_penalty_raises(ec_data)
    /\ ec_weight' = _edge_penalty(ec_data, ec_params)
    /\ ec_pc' = "returned"
    /\ UNCHANGED <<ec_data, ec_params>>
    /\ UNCHANGED outsideCost

\* _edge_penalty raises IndexError or TypeError
EdgePenaltyRaises ==
    /\ ec_pc = "call"
    /\ _edge_penalty_raises(ec_data)
    /\ ec_pc' = "raised"
    /\ UNCHANGED <<ec_data, ec_params, ec_weight>>
    /\ UNCHANGED outsideCost

NextCost ==
    \/ EdgePenaltyReturns
    \/ EdgePenaltyRaises

SpecCost == InitCost /\ [][NextCost]_vars

\* C12: for valid inputs (length >= 0, any highway class, any or no surface
\* label, preferences in [0, 1], exponent in [0.1, 3.0]) the returned edge
\* weight is strictly positive.
ValidCostInput ==
    /\ ec_data.length >= 0
    /\ ec_params.prefer_main_roads # Missing
    /\ ec_params.prefer_unpaved # Missing
    /\ ec_params.heatmap_influence # Missing
    /\ ec_params.surface_weight_factor # Missing

C12_WeightStrictlyPositive ==
    (ec_pc = "returned" /\ ValidCostInput) => ec_weight > 0

\* C13: for the same length, highway class and preferences (every setting
\* of the preferences), the label 'asphalt:lanes' weighs what 'asphalt'
\* weighs and 'gravel:compacted' weighs what 'gravel' weighs.
C13_CompoundLabelEquivalence ==
    (ec_pc = "returned" /\ Len(ec_data.surface) = 2
        /\ ec_data.surface \in { <<"asphalt", "lanes">>, <<"gravel", "compacted">> })
    => ec_weight = _edge_penalty([ec_data EXCEPT !.surface = <<ec_data.surface[1]>>],
                                 ec_params)

\* The weight of the same edge under another main-road preference.
WithMainPref(pm) ==
    _edge_penalty(ec_data, [ec_params EXCEPT !.prefer_main_roads = pm])

\* C14: for a main-road class (primary, secondary, trunk, motorway) and a
\* positive length the weight strictly decreases as the main-road
\* preference increases, everything else fixed; for every other class the
\* weight does not depend on the main-road preference.
C14_MainRoadPreferenceMonotone ==
    (ec_pc = "returned" /\ ec_data.length > 0
        /\ ec_params.prefer_main_roads # Missing)
    => IF HighwayOf(ec_data) \in {"primary", "secondary", "trunk", "motorway"}
       THEN \A pm \in InputPrefs \ {Missing} :
               /\ pm > ec_params.prefer_main_roads => WithMainPref(pm) < ec_weight
               /\ pm < ec_params.prefer_main_roads => WithMainPref(pm) > ec_weight
       ELSE \A pm \in InputPrefs : WithMainPref(pm) = ec_weight

\* A motorway edge was weighed with the main roads avoided.
C14_Witness ==
    /\ ec_pc = "returned"
    /\ ec_data.length = 3
    /\ HighwayOf(ec_data) = "motorway"
    /\ ec_params.prefer_main_roads = 0
    /\ ec_weight > WithMainPref(1)

\* The weight of the same edge under another unpaved preference.
WithUnpavedPref(pu) ==
    _edge_penalty(ec_data, [ec_params EXCEPT !.prefer_unpaved = pu])

\* C15: for a rough surface (gravel, unpaved, dirt) and a positive length the
\* weight strictly decreases as the unpaved preference u increases,
\* everything else fixed, and the surface penalty is scaled by
\* 1 - 0.5 * (u - 0.5), that is (5 - 2u) / 4, whatever the exponent is.
C15_UnpavedPreferenceMonotone ==
    (ec_pc = "returned" /\ ec_data.length > 0
        /\ ec_data.surface \in { <<"gravel">>, <<"unpaved">>, <<"dirt">> }
        /\ ec_params.prefer_unpaved # Missing)
    => /\ \A pu \in InputPrefs \ {Missing} :
             /\ pu > ec_params.prefer_unpaved => WithUnpavedPref(pu) < ec_weight
             /\ pu < ec_params.prefer_unpaved => WithUnpavedPref(pu) > ec_weight
       /\ 4 * ec_weight = (5 - ec_params.prefer_unpaved) * WithUnpavedPref(1)

\* A dirt edge was weighed at the highest exponent with unpaved avoided.
C15_Witness ==
    /\ ec_pc = "returned"
    /\ ec_data.length = 3
    /\ ec_data.surface = <<"dirt">>
    /\ ec_params.prefer_unpaved = 0
    /\ ec_params.surface_weight_factor = MaxExp
    /\ ec_weight > WithUnpavedPref(2)

\* The weight of the same edge with another surface and another exponent.
SurfaceWeight(surface, f) ==
    _edge_penalty([ec_data EXCEPT !.surface = surface],
                  [ec_params EXCEPT !.surface_weight_factor = f])

\* weight(rough) / weight(paved) at exponent f, in units of 1/SpScale.
RoughToPavedRatio(rough, paved, f) ==
    SurfaceWeight(rough, f) \div (SurfaceWeight(paved, f) \div SpScale)

\* The ratio is held exactly.
RatioIsExact(rough, paved, f) ==
    /\ SurfaceWeight(paved, f) % SpScale = 0
    /\ SurfaceWeight(rough, f) % (SurfaceWeight(paved, f) \div SpScale) = 0

C17_NeverRaises ==
    /\ ec_pc # "raised"
    /\ ec_pc = "returned" =>
          /\ (ec_data.highway.isList /\ ec_data.highway.items # <<>>) =>
                ec_weight = _edge_penalty(
                    [ec_data EXCEPT !.highway = Hw(ec_data.highway.items[1])],
                    ec_params)
          /\ (ec_data.highway.items = <<>> /\ ec_data.surface = <<>>) =>
                ec_weight = WScale * (IF ec_data.length = Missing THEN 1
                                      ELSE ec_data.length)

----------------------------------------------------------------------------
(* compute_route_hybrid *)

\* The backend argument: None, the three names, and a name in another case.
InputBackends == { "graphhopper", "osmnx", "auto", "GraphHopper" }

\* ROUTING_BACKEND, lower-cased at import.
InputSettings == { "auto", "graphhopper", "osmnx" }

InitHybrid ==
    /\ hy_backend \in InputBackends \cup {"None"}
    /\ hy_setting \in InputSettings
    /\ hy_request \in { <<1, 2>>, <<2, 1>> }
    /\ hy_fallback = FALSE
    /\ hy_in_try = FALSE
    /\ hy_calls = <<>>
    /\ hy_result = NoResult
    /\ hy_error = "none"
    /\ hy_pc = "call"
    /\ RequestIdle
    /\ RouteIdle
    /\ CorridorIdle /\ stitched = <<>>
    /\ RepairIdle
    /\ ChordIdle
    /\ CostIdle
    /\ BridgeIdle
    /\ SimplifyIdle

outsideHybrid == <<routeVars, corridorVars, repairVars, chordVars, costVars,
                   bridgeVars, simplifyVars>>

\* A backend that reads the setting only.
SettingOnly == hy_setting

\* selected_backend = backend or ROUTING_BACKEND
selected_backend == IF hy_backend # "None" THEN hy_backend ELSE hy_setting

\* One backend call and its outcome.
BackendCall(fn, ok) == [fn |-> fn, request |-> hy_request, ok |-> ok]

\* What a backend returns for the request, tagged with the backend.
Produced(by) == [coords |-> hy_request, produced_by |-> by, backend_used |-> by]

\* compute_route_hybrid dispatches on the selected backend
SelectBackend ==
    /\ hy_pc = "call"
    /\ hy_fallback' = (selected_backend \notin {"graphhopper", "osmnx"})
    /\ hy_pc' = IF selected_backend = "osmnx" THEN "try_osmnx"
                ELSE "try_graphhopper"
    /\ UNCHANGED <<hy_backend, hy_setting, hy_request, hy_in_try, hy_calls,
                   hy_result, hy_error>>
    /\ UNCHANGED outsideHybrid

\* is_graphhopper_available() is true
GraphHopperAvailable ==
    /\ hy_pc = "try_graphhopper"
    /\ hy_calls' = Append(hy_calls, BackendCall("is_graphhopper_available", TRUE))
    /\ hy_pc' = "compute_route_graphhopper"
    /\ UNCHANGED <<hy_backend, hy_setting, hy_request, hy_fallback, hy_in_try,
                   hy_result, hy_error>>
    /\ UNCHANGED outsideHybrid

\* is_graphhopper_available() is false: _try_osmnx inside the try block, or
\* an exception that the handler raises again
GraphHopperUnavailable ==
    /\ hy_pc = "try_graphhopper"
    /\ hy_calls' = Append(hy_calls, BackendCall("is_graphhopper_available", FALSE))
    /\ IF hy_fallback
       THEN hy_pc' = "try_osmnx" /\ hy_in_try' = TRUE /\ UNCHANGED hy_error
       ELSE hy_pc' = "raised" /\ hy_error' = "GraphHopper server not available"
            /\ UNCHANGED hy_in_try
    /\ UNCHANGED <<hy_backend, hy_setting, hy_request, hy_fallback, hy_result>>
    /\ UNCHANGED outsideHybrid

\* compute_route_graphhopper returns
GraphHopperRoutes ==
    /\ hy_pc = "compute_route_graphhopper"
    /\ hy_calls' = Append(hy_calls, BackendCall("compute_route_graphhopper", TRUE))
    /\ hy_result' = Produced("graphhopper")
    /\ hy_pc' = "returned"
    /\ UNCHANGED <<hy_backend, hy_setting, hy_request, hy_fallback, hy_in_try,
                   hy_error>>
    /\ UNCHANGED outsideHybrid

\* compute_route_graphhopper raises: the handler falls back or raises again
GraphHopperFails ==
    /\ hy_pc = "compute_route_graphhopper"
    /\ hy_calls' = Append(hy_calls, BackendCall("compute_route_graphhopper", FALSE))
    /\ IF hy_fallback
       THEN hy_pc' = "try_osmnx" /\ UNCHANGED hy_error
       ELSE hy_pc' = "raised" /\ hy_error' = "GraphHopper routing failed"
    /\ UNCHANGED <<hy_backend, hy_setting, hy_request, hy_fallback, hy_in_try,
                   hy_result>>
    /\ UNCHANGED outsideHybrid

\* compute_route returns
OsmnxRoutes ==
    /\ hy_pc = "try_osmnx"
    /\ hy_calls' = Append(hy_calls, BackendCall("compute_route", TRUE))
    /\ hy_result' = Produced("osmnx")
    /\ hy_pc' = "returned"
    /\ UNCHANGED <<hy_backend, hy_setting, hy_request, hy_fallback, hy_in_try,
                   hy_error>>
    /\ UNCHANGED outsideHybrid

\* compute_route raises: _try_osmnx raises "All routing backends failed",
\* which the handler of _try_graphhopper catches when _try_osmnx was called
\* inside its try block, and answers with a second _try_osmnx
OsmnxFails ==
    /\ hy_pc = "try_osmnx"
    /\ hy_calls' = Append(hy_calls, BackendCall("compute_route", FALSE))
    /\ IF hy_in_try
       THEN hy_pc' = "try_osmnx" /\ hy_in_try' = FALSE /\ UNCHANGED hy_error
       ELSE hy_pc' = "raised" /\ hy_error' = "All routing backends failed"
            /\ UNCHANGED hy_in_try
    /\ UNCHANGED <<hy_backend, hy_setting, hy_request, hy_fallback, hy_result>>
    /\ UNCHANGED outsideHybrid

NextHybrid ==
    \/ SelectBackend
    \/ GraphHopperAvailable
    \/ GraphHopperUnavailable
    \/ GraphHopperRoutes
    \/ GraphHopperFails
    \/ OsmnxRoutes
    \/ OsmnxFails

SpecHybrid == InitHybrid /\ [][NextHybrid]_vars

\* The calls made to a backend function so far.
HybridCalls(fns) == { i \in 1..Len(hy_calls) : hy_calls[i].fn \in fns }

GraphHopperFns == {"is_graphhopper_available", "compute_route_graphhopper"}

\* The backend the caller asked for: the argument, else the setting.
AskedBackend == IF hy_backend # "None" THEN hy_backend ELSE hy_setting

\* C18: an explicit backend argument overrides ROUTING_BACKEND; with
\* 'graphhopper' the OSMnx router is never invoked and GraphHopper being
\* unavailable or failing is raised to the caller; with 'osmnx' GraphHopper
\* is never contacted; otherwise GraphHopper is tried first and OSMnx is
\* invoked only after GraphHopper was unavailable or failed; the returned
\* backend label names the backend that produced the returned coordinates.
C18_BackendSelection ==
    /\ AskedBackend = "graphhopper" =>
          /\ HybridCalls({"compute_route"}) = {}
          /\ (\E i \in HybridCalls(GraphHopperFns) : ~ hy_calls[i].ok) =>
                /\ hy_pc = "raised"
                /\ hy_error \in {"GraphHopper server not available",
                                 "GraphHopper routing failed"}
    /\ AskedBackend = "osmnx" => HybridCalls(GraphHopperFns) = {}
    /\ AskedBackend \notin {"graphhopper", "osmnx"} =>
          /\ hy_calls # <<>> => hy_calls[1].fn = "is_graphhopper_available"
          /\ \A i \in HybridCalls({"compute_route"}) :
                \E j \in HybridCalls(GraphHopperFns) : j < i /\ ~ hy_calls[j].ok
    /\ hy_pc = "returned" =>
          /\ hy_result.backend_used = hy_result.produced_by
          /\ hy_result.coords = hy_request
          /\ hy_calls[Len(hy_calls)].ok
          /\ hy_calls[Len(hy_calls)].fn =
                (IF hy_result.backend_used = "osmnx" THEN "compute_route"
                 ELSE "compute_route_graphhopper")
    /\ \A i \in 1..Len(hy_calls) : hy_calls[i].request = hy_request

\* The argument 'osmnx' was given under the setting 'graphhopper' and OSMnx
\* returned the route.
C18_Witness ==
    /\ hy_backend = "osmnx"
    /\ hy_setting = "graphhopper"
    /\ hy_pc = "returned"
    /\ hy_result.backend_used = "osmnx"

----------------------------------------------------------------------------
(* stitch_coords of the 100 km generator: bridging a gap between segments *)

\* if gap > 1000.0
BRIDGE_GAP == 1000

\* cur_radius = 8000
BRIDGE_RADIUS == 8000

\* while attempts < 3
BRIDGE_TRIES == 3

\* sub_len = 5000.0
sub_len == 5000

\* The widest gap between the path and the segment to join, in sub_len.
MaxGapChords == 2

\* The distance from the end of the path to the start of the segment: none,
\* under the threshold, and one to MaxGapChords whole chords above sub_len.
InputGaps == {0, 800} \cup { (sub_len + 1000) * k : k \in 1..MaxGapChords }

\* all_coords: a path of one or two points and a segment of two points.
InputAllCoords ==
    { << first, <<Last(first) + g, Last(first) + g + 500>> >> :
         first \in { <<0>>, <<0, 500>> }, g \in InputGaps }

InitBridge ==
    /\ bg_all_coords \in InputAllCoords
    /\ bg_stitched = bg_all_coords[1]
    /\ bg_i = 0
    /\ bg_attempts = 0
    /\ bg_radius = 0
    /\ bg_sub_points = <<>>
    /\ bg_si = 0
    /\ bg_outcome = "none"
    /\ bg_pc = "seg"
    /\ RequestIdle
    /\ RouteIdle
    /\ CorridorIdle /\ stitched = <<>>
    /\ RepairIdle
    /\ ChordIdle
    /\ CostIdle
    /\ HybridIdle
    /\ SimplifyIdle

outsideBridge == <<routeVars, corridorVars, repairVars, chordVars, costVars,
                   hybridVars, simplifyVars>>

\* The segment being joined.
BridgeSeg == bg_all_coords[2]

\* What compute_route_intersections(a, b, ...) can return when it returns:
\* no point, one point, the two ends, the two ends and a point between.
RouteOutcomes(a, b) == { <<>>, <<a>>, <<a, b>>, <<a, (a + b) \div 2, b>> }

\* stitched.extend(lst[j:]) with j the first index of lst that differs from
\* stitched[-1]
ExtendSkipping(st, lst) == st \o SubSeq(lst, SkipEqual(lst, Last(st), 1), Len(lst))

\* the head of the for loop body: i, the gap, and the join of a segment that
\* needs no bridge
ScanSegment ==
    /\ bg_pc = "seg"
    /\ LET i == SkipEqual(BridgeSeg, Last(bg_stitched), 1)
       IN  /\ bg_i' = i
           /\ IF i <= Len(BridgeSeg)
                 /\ haversine_m(Last(bg_stitched), BridgeSeg[i]) > BRIDGE_GAP
              THEN /\ bg_radius' = BRIDGE_RADIUS
                   /\ bg_pc' = "bridge"
                   /\ UNCHANGED <<bg_stitched, bg_outcome>>
              ELSE /\ bg_stitched' = bg_stitched \o SubSeq(BridgeSeg, i, Len(BridgeSeg))
                   /\ bg_outcome' = "joined"
                   /\ bg_pc' = "done"
                   /\ UNCHANGED bg_radius
    /\ UNCHANGED <<bg_all_coords, bg_attempts, bg_sub_points, bg_si>>
    /\ UNCHANGED outsideBridge

\* a bridging route that starts and ends closer than the gap: extend with it
\* and with the segment, both without the points that repeat stitched[-1]
DirectBridgeSucceeds ==
    /\ bg_pc = "bridge"
    /\ LET a   == Last(bg_stitched)
           b   == BridgeSeg[bg_i]
           gap == haversine_m(a, b)
       IN  \E b_coords \in RouteOutcomes(a, b) :
              /\ b_coords # <<>>
              /\ haversine_m(b_coords[1], a) < gap
              /\ haversine_m(Last(b_coords), b) < gap
              /\ bg_stitched' = ExtendSkipping(ExtendSkipping(bg_stitched, b_coords),
                                               BridgeSeg)
    /\ bg_outcome' = "bridged"
    /\ bg_pc' = "done"
    /\ UNCHANGED <<bg_all_coords, bg_i, bg_attempts, bg_radius, bg_sub_points, bg_si>>
    /\ UNCHANGED outsideBridge

\* the router raised or its route was rejected: a wider radius, and after the
\* last attempt the split of the gap into sub-chords
DirectBridgeFails ==
    /\ bg_pc = "bridge"
    /\ IF bg_attempts + 1 < BRIDGE_TRIES
       THEN /\ bg_attempts' = bg_attempts + 1
            /\ bg_radius' = EscalateRadius(bg_radius)
            /\ UNCHANGED <<bg_sub_points, bg_pc>>
       ELSE LET a     == Last(bg_stitched)
                b     == BridgeSeg[bg_i]
                n_sub == Max2(1, (haversine_m(a, b) \div sub_len) + 1)
            IN  /\ bg_sub_points' = interp_points(a, b, n_sub)
                /\ bg_attempts' = 0
                /\ bg_radius' = BRIDGE_RADIUS
                /\ bg_pc' = "sub"
    /\ UNCHANGED <<bg_all_coords, bg_stitched, bg_i, bg_si, bg_outcome>>
    /\ UNCHANGED outsideBridge

\* a sub-chord route of at least two points: extend with it; after the last
\* sub-chord the segment follows
SubChordSucceeds ==
    /\ bg_pc = "sub"
    /\ \E c_coords \in RouteOutcomes(bg_sub_points[bg_si + 1], bg_sub_points[bg_si + 2]) :
          /\ Len(c_coords) >= 2
          /\ LET st == ExtendSkipping(bg_stitched, c_coords)
             IN  IF bg_si + 1 < Len(bg_sub_points) - 1
                 THEN /\ bg_stitched' = st
                      /\ bg_si' = bg_si + 1
                      /\ UNCHANGED <<bg_outcome, bg_pc>>
                 ELSE /\ bg_stitched' = ExtendSkipping(st, BridgeSeg)
                      /\ bg_outcome' = "filled"
                      /\ bg_pc' = "done"
                      /\ UNCHANGED bg_si
    /\ bg_attempts' = 0
    /\ bg_radius' = BRIDGE_RADIUS
    /\ UNCHANGED <<bg_all_coords, bg_i, bg_sub_points>>
    /\ UNCHANGED outsideBridge

\* the router raised or returned fewer than two points: a wider radius, and
\* after the last attempt filled = False and stitched.extend(seg[i:])
SubChordFails ==
    /\ bg_pc = "sub"
    /\ bg_attempts' = bg_attempts + 1
    /\ bg_radius' = EscalateRadius(bg_radius)
    /\ IF bg_attempts + 1 < BRIDGE_TRIES
       THEN UNCHANGED <<bg_stitched, bg_outcome, bg_pc>>
       ELSE /\ bg_stitched' = bg_stitched \o SubSeq(BridgeSeg, bg_i, Len(BridgeSeg))
            /\ bg_outcome' = "straight"
            /\ bg_pc' = "done"
    /\ UNCHANGED <<bg_all_coords, bg_i, bg_sub_points, bg_si>>
    /\ UNCHANGED outsideBridge

NextBridge ==
    \/ ScanSegment
    \/ DirectBridgeSucceeds
    \/ DirectBridgeFails
    \/ SubChordSucceeds
    \/ SubChordFails

SpecBridge == InitBridge /\ [][NextBridge]_vars

\* C19: when bridging an over-threshold gap directly fails at every radius
\* and a sub-chord exhausts its attempts, the stitched output between the two
\* ends of the gap is the straight connection: the path as it was, followed
\* by the segment, with no point of a solved sub-chord between them.
C19_FailedBridgeKeepsStraight ==
    (bg_pc = "done" /\ bg_outcome = "straight")
    => bg_stitched = bg_all_coords[1] \o SubSeq(BridgeSeg, bg_i, Len(BridgeSeg))

----------------------------------------------------------------------------
(* The intersection graph *)

\* The nodes of a road graph whose undirected degree is not 2.
DecisionPoints(Gr) == { n \in NodesOf(Gr) : Degree(Gr, n) # 2 }

\* C20: the node set of the intersection graph that the simplifier returns
\* is exactly the set of nodes of the source graph whose undirected degree is
\* not 2; no degree-2 node is a node of it or an end of one of its edges.
C20_NodesAreDecisionPoints ==
    [][pc = "simplify" =>
          /\ H'.nodes = DecisionPoints(G)
          /\ \A n \in H'.nodes : Degree(G, n) # 2
          /\ \A i \in 1..Len(H'.edges) :
                {H'.edges[i].u, H'.edges[i].v} \subseteq DecisionPoints(G)]_vars

\* The simplifier returned a graph with an edge through a degree-2 node that
\* it dropped, dead ends kept.
C20_Witness ==
    /\ mode = "heuristic"
    /\ pc = "search"
    /\ H.nodes = DecisionPoints(G)
    /\ \E n \in NodesOf(G) : Degree(G, n) = 2 /\ n \notin H.nodes
    /\ \E n \in H.nodes : Degree(G, n) = 1
    /\ H.edges # <<>>

----------------------------------------------------------------------------
(* simplify_graph_to_intersections on its own *)

\* Five nodes on the meridian; node 3 lies beyond node 4.
SimplifyY == <<0, 2, 6, 4, 8>>

TwoWay(u, v, length) ==
    { Edge(u, v, 0, length, "residential", <<"asphalt">>, <<>>),
      Edge(v, u, 0, length, "residential", <<"asphalt">>, <<>>) }

\* The streets between each pair of nodes: none, or one of the variants.
\* There are short and long two-way streets, a parallel one-way edge, one-way
\* streets with and without a polyline and a length, and a loop.
StreetVariants ==
    << { {}, TwoWay(1, 2, 2), TwoWay(1, 2, 9) },
       { {}, { Edge(1, 2, 1, 1, "path", <<"gravel">>, <<>>) } },
       { {}, TwoWay(2, 4, 2),
             { Edge(4, 2, 0, 2, "cycleway", <<"asphalt">>, <<4, 3, 2>>) } },
       { {}, TwoWay(1, 3, 3),
             { Edge(1, 3, 0, Missing, "primary", <<>>, <<>>) } },
       { {}, TwoWay(3, 4, 3),
             { Edge(3, 4, 0, 3, "path", <<"dirt">>, <<6, 5, 4>>),
               Edge(4, 3, 0, 3, "path", <<"dirt">>, <<4, 5, 6>>) } },
       { {}, TwoWay(4, 5, 1) },
       { {}, { Edge(5, 5, 0, 1, "service", <<>>, <<>>) } } >>

\* The road graph with the given edges and the nodes they touch.
GraphOf(es) ==
    [y |-> [n \in { e.u : e \in es } \cup { e.v : e \in es } |-> SimplifyY[n]],
     edges |-> es]

\* The edge sets that take one variant of each of the first i streets.
RECURSIVE StreetChoices(_)
StreetChoices(i) ==
    IF i = 0 THEN { {} }
    ELSE { es \cup v : es \in StreetChoices(i - 1), v \in StreetVariants[i] }

SimplifyMaps == { GraphOf(es) : es \in StreetChoices(Len(StreetVariants)) \ { {} } }

InitSimplify ==
    /\ sg_G \in SimplifyMaps
    /\ sg_H = EmptyH
    /\ sg_pc = "call"
    /\ sg_request = <<0, 0>> /\ sg_ends = <<0, 0>>
    /\ sg_params = Prefs(1, 1, 0, 1)
    /\ sg_threshold = 0
    /\ RequestIdle
    /\ RouteIdle
    /\ CorridorIdle /\ stitched = <<>>
    /\ RepairIdle
    /\ ChordIdle
    /\ CostIdle
    /\ HybridIdle
    /\ BridgeIdle

outsideSimplify == <<routeVars, corridorVars, repairVars, chordVars, costVars,
                     hybridVars, bridgeVars>>

\* H = simplify_graph_to_intersections(G)
Simplify ==
    /\ sg_pc = "call"
    /\ sg_H' = simplify_graph_to_intersections(sg_G)
    /\ sg_pc' = "simplified"
    /\ UNCHANGED <<sg_G, sg_request, sg_ends, sg_params, sg_threshold>>
    /\ UNCHANGED outsideSimplify

\* if len(H) == 0: return compute_route(...)
SimplifyFallsBack ==
    /\ sg_pc = "simplified"
    /\ sg_H.nodes = {}
    /\ sg_pc' = "plain"
    /\ UNCHANGED <<sg_G, sg_H, sg_request, sg_ends, sg_params, sg_threshold>>
    /\ UNCHANGED outsideSimplify

\* The coordinates a request is made for.
InputEnds == { 0, 3, 5, 8 }

\* s_node, t_node = nearest_intersection(orig_node), nearest_intersection(dest_node)
SnapEnds(a, b) ==
    /\ sg_pc = "simplified"
    /\ sg_H.nodes # {}
    /\ sg_request' = <<a, b>>
    /\ sg_ends' = << nearest_intersection(sg_G, sg_H, nearest_nodes(sg_G, a)),
                     nearest_intersection(sg_G, sg_H, nearest_nodes(sg_G, b)) >>
    /\ sg_pc' = "snapped"
    /\ UNCHANGED <<sg_G, sg_H, sg_params, sg_threshold>>
    /\ UNCHANGED outsideSimplify

InputThresholds == { 0, HEADING_THRESHOLD, 180 }

\* The weight loop over the edges of H.
WeighEdges(p, threshold) ==
    /\ sg_pc = "snapped"
    /\ sg_params' = p
    /\ sg_threshold' = threshold
    /\ sg_H' = WeighH(sg_H, sg_request[2], p, threshold)
    /\ sg_pc' = "weighted"
    /\ UNCHANGED <<sg_G, sg_request, sg_ends>>
    /\ UNCHANGED outsideSimplify

NextSimplify ==
    \/ Simplify
    \/ SimplifyFallsBack
    \/ \E a \in InputEnds, b \in InputEnds : SnapEnds(a, b)
    \/ \E p \in RouteParams, threshold \in InputThresholds : WeighEdges(p, threshold)

SpecSimplify == InitSimplify /\ [][NextSimplify]_vars

\* The undirected walks from n to m over distinct nodes whose interior nodes
\* all have degree 2.
ChainWalks(Gr, n, m) ==
    { q \in UNION { [1..k -> NodesOf(Gr)] : k \in 2..Cardinality(NodesOf(Gr)) } :
        /\ q[1] = n /\ q[Len(q)] = m
        /\ \A i, j \in 1..Len(q) : i # j => q[i] # q[j]
        /\ \A i \in 1..(Len(q) - 1) : q[i + 1] \in Nbrs(Gr, q[i])
        /\ \A i \in 2..(Len(q) - 1) : Degree(Gr, q[i]) = 2 }

\* The walks of the simplifier that must emit no edge: those that come back
\* to their start and those that stop at a node of degree 2.
BarrenWalks(Gr) ==
    { nn \in DecisionPoints(Gr) \X NodesOf(Gr) :
        /\ nn[2] \in Nbrs(Gr, nn[1])
        /\ LET w == WalkLoop(Gr, DecisionPoints(Gr), <<nn[1]>>, nn[1], nn[2], 0)
           IN  w.cur = nn[1] \/ Degree(Gr, w.cur) = 2 }

\* C21: an edge n -> m of the intersection graph exists only if n and m are
\* distinct decision points joined in the source graph by an undirected walk
\* whose interior nodes all have degree 2; a walk that returns to n, revisits
\* a node or runs into a dead chain emits no edge, so no edge starts and ends
\* at one node or ends at a node of degree 2.
C21_EdgesJoinDecisionPoints ==
    sg_pc = "simplified" =>
       \A i \in 1..Len(sg_H.edges) :
          LET e == sg_H.edges[i]
          IN  /\ e.u # e.v
              /\ {e.u, e.v} \subseteq DecisionPoints(sg_G)
              /\ ChainWalks(sg_G, e.u, e.v) # {}

\* The intersection graph has an edge over a chain of degree-2 nodes, and
\* the road graph has a walk that emitted none.
C21_Witness ==
    /\ sg_pc = "simplified"
    /\ \E i \in 1..Len(sg_H.edges) :
          \A q \in ChainWalks(sg_G, sg_H.edges[i].u, sg_H.edges[i].v) : Len(q) > 2
    /\ \E nn \in BarrenWalks(sg_G) : nn[1] # nn[2]
    /\ \E nn \in BarrenWalks(sg_G) : nn[1] = nn[2]

\* The lengths of the original edges that join a and b, in either direction
\* (an edge without a length counts 0).
LengthsBetween(Gr, a, b) ==
    { IF e.length = Missing THEN 0 ELSE e.length :
        e \in EdgesBetween(Gr, a, b) \cup EdgesBetween(Gr, b, a) }

\* The sums of the lengths of original edges traversed by the walk q from
\* its i-th node on.
RECURSIVE WalkSums(_, _, _)
WalkSums(Gr, q, i) ==
    IF i >= Len(q) THEN {0}
    ELSE { l + rest : l \in LengthsBetween(Gr, q[i], q[i + 1]),
                      rest \in WalkSums(Gr, q, i + 1) }

\* C22: the length stored on an edge of the intersection graph is the sum of
\* the lengths of the original edges traversed by its walk; only when that
\* sum is zero is it the great-circle distance between the first and the
\* last coordinate of the edge's geometry.
C22_LengthIsSumAlongWalk ==
    sg_pc = "simplified" =>
       \A i \in 1..Len(sg_H.edges) :
          LET e == sg_H.edges[i]
          IN  \E q \in ChainWalks(sg_G, e.u, e.v) :
              \E total \in WalkSums(sg_G, q, 1) :
                 IF total # 0 THEN e.length = total
                 ELSE /\ Len(e.geometry) >= 2
                      /\ e.length = _haversine(e.geometry[1], Last(e.geometry))

\* One edge aggregates two original edges of positive length, another one
\* an original edge without a length.
C22_Witness ==
    /\ sg_pc = "simplified"
    /\ \E i \in 1..Len(sg_H.edges) :
          /\ sg_H.edges[i].length > 0
          /\ \A q \in ChainWalks(sg_G, sg_H.edges[i].u, sg_H.edges[i].v) :
                Len(q) > 2 /\ 0 \notin WalkSums(sg_G, q, 1)
    /\ \E i \in 1..Len(sg_H.edges) :
          /\ sg_H.edges[i].length > 0
          /\ \A q \in ChainWalks(sg_G, sg_H.edges[i].u, sg_H.edges[i].v) :
                WalkSums(sg_G, q, 1) = {0}

\* The aggregated edges of the walks that leave decision point n and stop at
\* the decision point m, one per neighbour of n.
WalksBetween(Gr, n, m) ==
    { AggregatedEdge(Gr, n, WalkLoop(Gr, DecisionPoints(Gr), <<n>>, n, nbr, 0).path, m) :
        nbr \in { b \in Nbrs(Gr, n) :
                    WalkLoop(Gr, DecisionPoints(Gr), <<n>>, n, b, 0).cur = m } }

StoredFor(n, m) == { i \in 1..Len(sg_H.edges) : sg_H.edges[i].u = n /\ sg_H.edges[i].v = m }

\* C23: when several walks join the same ordered pair of decision points,
\* the intersection graph holds one edge for the pair, with the smallest
\* length among the walks and the geometry, bearing and tags of a walk of
\* that length.
C23_ShortestWalkKept ==
    sg_pc = "simplified" =>
       \A n \in DecisionPoints(sg_G) : \A m \in DecisionPoints(sg_G) \ {n} :
          LET walks == WalksBetween(sg_G, n, m)
          IN  IF walks = {} THEN StoredFor(n, m) = {}
              ELSE /\ Cardinality(StoredFor(n, m)) = 1
                   /\ \A i \in StoredFor(n, m) :
                         /\ sg_H.edges[i] \in walks
                         /\ \A w \in walks : sg_H.edges[i].length <= w.length

\* The pair n, m for which the longer walk is found first, or for which it
\* is found last.
LongerFound(first) ==
    \E n \in DecisionPoints(sg_G) : \E m \in DecisionPoints(sg_G) \ {n} :
       LET nb == Ascending(Nbrs(sg_G, n))
           to == [k \in 1..Len(nb) |->
                     WalkLoop(sg_G, DecisionPoints(sg_G), <<n>>, n, nb[k], 0)]
       IN  \E j, k \in 1..Len(nb) :
              /\ j < k /\ to[j].cur = m /\ to[k].cur = m
              /\ LET lj == AggregatedEdge(sg_G, n, to[j].path, m).length
                     lk == AggregatedEdge(sg_G, n, to[k].path, m).length
                 IN  IF first THEN lj > lk ELSE lj < lk

C23_Witness == sg_pc = "simplified" /\ LongerFound(TRUE)

C23_WitnessLongerLast == sg_pc = "simplified" /\ LongerFound(FALSE)

\* C24: the geometry of an edge of the intersection graph from n to m starts
\* at n's coordinate and ends at m's coordinate, and the stored bearing is
\* the direction from n toward m, also when a traversed road exists only in
\* the direction opposite to the walk.
C24_GeometryRunsFromStartToEnd ==
    sg_pc = "simplified" =>
       \A i \in 1..Len(sg_H.edges) :
          LET e == sg_H.edges[i]
          IN  /\ Len(e.geometry) >= 2
              /\ e.geometry[1] = sg_G.y[e.u]
              /\ Last(e.geometry) = sg_G.y[e.v]
              /\ e.bearing = _bearing(sg_G.y[e.u], sg_G.y[e.v])

\* The nodes within k undirected hops of the nodes of S.
RECURSIVE Within(_, _, _)
Within(Gr, S, k) ==
    IF k = 0 THEN S
    ELSE Within(Gr, S \cup UNION { Nbrs(Gr, n) : n \in S }, k - 1)

\* The undirected hop distance from n to the nearest node of T (Missing when
\* none can be reached).
HopsToNearest(Gr, n, T) ==
    LET ks == { k \in 0..Cardinality(NodesOf(Gr)) : Within(Gr, {n}, k) \cap T # {} }
    IN  IF ks = {} THEN Missing ELSE SetMin(ks)

SnappedRight(Gr, node, snapped) ==
    IF node \in DecisionPoints(Gr) THEN snapped = node
    ELSE HopsToNearest(Gr, node, DecisionPoints(Gr)) # Missing =>
            /\ snapped \in DecisionPoints(Gr)
            /\ HopsToNearest(Gr, node, {snapped})
                  = HopsToNearest(Gr, node, DecisionPoints(Gr))

\* C25: a graph node nearest to a request endpoint that is a decision point is
\* the A* endpoint unchanged; otherwise the A* endpoint is a decision point
\* at minimum undirected hop distance from it, so that both A* endpoints are
\* nodes of the intersection graph whenever a decision point can be reached.
C25_EndsSnapToNearestDecisionPoint ==
    sg_pc \in {"snapped", "weighted"} =>
       \A k \in 1..2 :
          LET node == nearest_nodes(sg_G, sg_request[k])
          IN  /\ SnappedRight(sg_G, node, sg_ends[k])
              /\ HopsToNearest(sg_G, node, DecisionPoints(sg_G)) # Missing
                    => sg_ends[k] \in sg_H.nodes

\* The start's node lies two hops or more from every decision point and some
\* decision point lies further away than the one chosen; the end's node is a
\* decision point.
C25_Witness ==
    /\ sg_pc = "snapped"
    /\ LET node == nearest_nodes(sg_G, sg_request[1])
       IN  /\ HopsToNearest(sg_G, node, DecisionPoints(sg_G)) >= 2
           /\ \E d \in DecisionPoints(sg_G) :
                 HopsToNearest(sg_G, node, {d}) > HopsToNearest(sg_G, node, {sg_ends[1]})
    /\ nearest_nodes(sg_G, sg_request[2]) \in DecisionPoints(sg_G)
    /\ sg_ends[2] = nearest_nodes(sg_G, sg_request[2])

\* The angle between two compass bearings.
Deviation(a, b) ==
    LET d == Abs(a - b) % 360
    IN  IF d <= 180 THEN d ELSE 360 - d

\* Compass bearings as _bearing returns them, in [0, 360).
Bearings == { 0, 45, 60, 90, 135, 180, 225, 270, 300, 315, 359 }

\* The Edge Cost Model weight of the length and tags of an edge of H.
CostModelWeight(e) ==
    _edge_penalty([length |-> e.length, highway |-> e.highway, surface |-> e.surface,
                   surface_list |-> e.surface_list], sg_params)

DeviationOf(e) == Deviation(e.bearing, _bearing(sg_G.y[e.u], sg_request[2]))

----------------------------------------------------------------------------
(* Termination of the retry loops *)

\* The repair is straight-line code in one thread: a statement that can be
\* executed is executed, and a search that is started returns (BridgeFails is
\* enabled whenever a search is; a search that succeeds moves on to the next
\* pair as well).
SpecRepairFair ==
    /\ SpecRepair
    /\ WF_vars(KeepPoint) /\ WF_vars(BridgeFails) /\ WF_vars(KeepStraight)
    /\ WF_vars(WriteArtifact) /\ WF_vars(CheckRouteGaps)

\* One invocation of the search engine by the repair pass.
RepairCall == BridgeSucceeds \/ BridgeFails

RepairEnded == rpc \in {"done", "assert_failed", "failed", "value_error"}

C27_SegmentAttemptsBounded ==
    [][(AttemptSucceeds \/ AttemptFails) => attempt < MAX_ATTEMPTS]_vars

C27_StitchAttemptsBounded ==
    [][(DirectBridgeSucceeds \/ DirectBridgeFails \/ SubChordSucceeds \/ SubChordFails)
          => bg_attempts < BRIDGE_TRIES]_vars

----------------------------------------------------------------------------
(* Symmetry of the intersection graph *)

HasHEdge(n, m) == \E i \in 1..Len(sg_H.edges) : sg_H.edges[i].u = n /\ sg_H.edges[i].v = m

\* C28: the intersection graph has an edge from n to m if and only if it has
\* an edge from m to n, whatever the direction of the one-way edges of the
\* road graph.
C28_IntersectionGraphSymmetric ==
    sg_pc = "simplified" =>
       \A n \in NodesOf(sg_G), m \in NodesOf(sg_G) : HasHEdge(n, m) <=> HasHEdge(m, n)

\* Two decision points are joined by a chain that contains a one-way road and
\* no road in the opposite direction of it, and the intersection graph has
\* both edges.
C28_Witness ==
    /\ sg_pc = "simplified"
    /\ \E n \in DecisionPoints(sg_G), m \in DecisionPoints(sg_G) :
          /\ n # m /\ HasHEdge(n, m) /\ HasHEdge(m, n)
          /\ \A q \in ChainWalks(sg_G, n, m) :
                /\ Len(q) > 2
                /\ \E k \in 1..(Len(q) - 1) :
                      /\ EdgesBetween(sg_G, q[k + 1], q[k]) # {}
                      /\ EdgesBetween(sg_G, q[k], q[k + 1]) = {}

----------------------------------------------------------------------------
(* What the repair pass keeps *)

\* sub is a subsequence of sq from its i-th and j-th elements on.
RECURSIVE IsSubsequenceFrom(_, _, _, _)
IsSubsequenceFrom(sub, i, sq, j) ==
    IF i > Len(sub) THEN TRUE
    ELSE IF j > Len(sq) THEN FALSE
    ELSE IF sub[i] = sq[j] THEN IsSubsequenceFrom(sub, i + 1, sq, j + 1)
    ELSE IsSubsequenceFrom(sub, i, sq, j + 1)

\* C29: the repair pass only inserts points between the two endpoints of an
\* over-threshold gap: every point of the stitched input, the far endpoint of
\* each repaired gap included, appears in the repaired output in its original
\* order.
C29_RepairKeepsInputPoints ==
    (rflow = "generate_100km" /\ rpc \in {"done", "assert_failed"}) =>
        IsSubsequenceFrom(stitched, 1, final_coords, 1)

----------------------------------------------------------------------------
(* The number of OSMnx attempts of compute_route_hybrid *)

\* C30: in automatic backend mode the OSMnx router is invoked at most once per
\* compute_route_hybrid call: when GraphHopper is unavailable or fails and the
\* OSMnx route computation then fails, its error reaches the caller without a
\* second OSMnx attempt.
C30_OsmnxInvokedAtMostOnce ==
    AskedBackend \notin {"graphhopper", "osmnx"} =>
        Cardinality(HybridCalls({"compute_route"})) <= 1

====
